---- MODULE Spec2Model ----
(***************************************************************************)
(* Model of the expression engine of VinGarcia/insights: the lexer and     *)
(* compiler driver (eparser.go: parse), the RPN builder (rpn_builder.go),  *)
(* the token model and lazy JSON binding (tokens.go, containers.go) and    *)
(* the evaluator (eparser.go: evaluate, BoolExpr.Evaluate).                *)
(*                                                                         *)
(* Strings are sequences of one-character strings, so that the lexer can   *)
(* index them as the code indexes []rune.  64-bit integers and the         *)
(* integral float64 values are numbers in four limbs of 21 bits, least     *)
(* significant first: three limbs hold exactly the 63 value bits of an     *)
(* int64, and float64 rounding keeps 53 significant bits.                  *)
(***************************************************************************)
EXTENDS Integers, Sequences, FiniteSets, TLC

(***************************************************************************)
(* Characters                                                              *)
(***************************************************************************)
Digits == {"0", "1", "2", "3", "4", "5", "6", "7", "8", "9"}

Letters == {"a", "b", "c", "d", "e", "f", "n", "t", "x",
            "A", "B", "C", "D", "E", "F", "X"}

Spaces == {" ", "\t", "\n"}

\* unicode.IsNumber, unicode.IsLetter, unicode.IsSpace on the model's alphabet
IsNumber(c) == c \in Digits

IsLetter(c) == c \in Letters

IsSpace(c) == c \in Spaces

\* isVarChar checks if a character is the first character of a variable
isVarChar(c) == IsLetter(c) \/ c = "_"

hexValidChars == Digits \cup {"a", "b", "c", "d", "e", "f", "A", "B", "C", "D", "E", "F"}

isValidHexDigit(c) == c \in hexValidChars

(***************************************************************************)
(* 64-bit numbers in limbs                                                 *)
(***************************************************************************)
\* the value bits of an int64
Int64Bits == 63

LimbBits == Int64Bits \div 3

Limb == 2 ^ LimbBits

NumLimbs == 4 * (LimbBits \div LimbBits)

Pow2(k) == 2 ^ k

Zero == <<0, 0, 0, 0>>

\* v * m + a for a small multiplier m and addend a (both below 2^9)
MulAdd(v, m, a) ==
    LET c1 == v[1] * m + a
        c2 == v[2] * m + (c1 \div Limb)
        c3 == v[3] * m + (c2 \div Limb)
        c4 == v[4] * m + (c3 \div Limb)
    IN  <<c1 % Limb, c2 % Limb, c3 % Limb, c4 % Limb>>

\* v + 2^k
AddPow2(v, k) ==
    LET j == (k \div LimbBits) + 1
        a == Pow2(k % LimbBits)
        c1 == v[1] + (IF j = 1 THEN a ELSE 0)
        c2 == v[2] + (IF j = 2 THEN a ELSE 0) + (c1 \div Limb)
        c3 == v[3] + (IF j = 3 THEN a ELSE 0) + (c2 \div Limb)
        c4 == v[4] + (IF j = 4 THEN a ELSE 0) + (c3 \div Limb)
    IN  <<c1 % Limb, c2 % Limb, c3 % Limb, c4 % Limb>>

Bit(v, k) == (v[(k \div LimbBits) + 1] \div Pow2(k % LimbBits)) % 2

RECURSIVE HighBit(_, _)
\* the highest set bit of v at or below bit k (-1: none)
HighBit(v, k) ==
    IF k < 0 THEN -1 ELSE IF Bit(v, k) = 1 THEN k ELSE HighBit(v, k - 1)

\* number of significant bits of v
BitLen(v) == HighBit(v, NumLimbs * LimbBits - 1) + 1

\* v with its s lowest bits cleared
ClearLow(v, s) ==
    [j \in 1..NumLimbs |->
        LET lo == (j - 1) * LimbBits
        IN  IF s <= lo THEN v[j]
            ELSE IF s >= lo + LimbBits THEN 0
            ELSE v[j] - (v[j] % Pow2(s - lo))]

\* The int64 range holds values below 2^63: exactly three limbs.
\* the value fits an unsigned 64-bit integer
FitsUint64(v) == v[4] < 2

FitsInt64(v) == v[4] = 0

\* the significant bits of a float64
MantissaBits == 53

\* float64(x) of a non-negative integer: round to nearest, ties to even,
\* keeping MantissaBits significant bits.
float64(v) ==
    LET len == BitLen(v)
        s == len - MantissaBits
    IN  IF s <= 0 THEN v
        ELSE LET guard == Bit(v, s - 1) = 1
                 sticky == \E k \in 0..(s - 2) : Bit(v, k) = 1
                 odd == Bit(v, s) = 1
                 up == guard /\ (sticky \/ odd)
             IN  IF up THEN AddPow2(ClearLow(v, s), s) ELSE ClearLow(v, s)

\* value of a digit character as strconv.ParseUint reads it (-1: no digit)
DigitVal(c) ==
    CASE c = "0" -> 0 [] c = "1" -> 1 [] c = "2" -> 2 [] c = "3" -> 3
      [] c = "4" -> 4 [] c = "5" -> 5 [] c = "6" -> 6 [] c = "7" -> 7
      [] c = "8" -> 8 [] c = "9" -> 9
      [] c \in {"a", "A"} -> 10 [] c \in {"b", "B"} -> 11
      [] c \in {"c", "C"} -> 12 [] c \in {"d", "D"} -> 13
      [] c \in {"e", "E"} -> 14 [] c \in {"f", "F"} -> 15
      [] c \in {"n"} -> 23 [] c \in {"t"} -> 29 [] c \in {"x", "X"} -> 33
      [] OTHER -> -1

RECURSIVE ParseDigits(_, _, _)
\* the digit loop of strconv.ParseUint followed by ParseInt's range check:
\* "syntax" on a character that is no digit of the base, "range" as soon as
\* the value leaves the int64 range
ParseDigits(s, base, acc) ==
    IF s = <<>> THEN [ok |-> TRUE, v |-> acc]
    ELSE LET d == DigitVal(Head(s))
         IN  IF d < 0 \/ d >= base THEN [ok |-> FALSE, err |-> "syntax"]
             ELSE LET n == MulAdd(acc, base, d)
                  IN  IF ~FitsInt64(n) THEN [ok |-> FALSE, err |-> "range"]
                      ELSE ParseDigits(Tail(s), base, n)

\* strconv.ParseInt(s, 10, 64): the literal read as decimal whatever its prefix
ParseIntBase10(s) ==
    IF s = <<>> THEN [ok |-> FALSE, err |-> "syntax"] ELSE ParseDigits(s, 10, Zero)

\* strconv.ParseInt(s, 0, 64) on an unsigned literal: base 0 reads the
\* prefix 0b / 0x (three characters at least), a leading 0 as octal
ParseInt(s) ==
    IF s = <<>> THEN [ok |-> FALSE, err |-> "syntax"]
    ELSE IF s[1] = "0"
    THEN IF Len(s) >= 3 /\ s[2] \in {"b", "B"} THEN ParseDigits(SubSeq(s, 3, Len(s)), 2, Zero)
         ELSE IF Len(s) >= 3 /\ s[2] \in {"x", "X"} THEN ParseDigits(SubSeq(s, 3, Len(s)), 16, Zero)
         ELSE ParseDigits(Tail(s), 8, Zero)
    ELSE ParseDigits(s, 10, Zero)

RECURSIVE DecimalValue(_, _)
\* the exact value of a run of decimal digits
DecimalValue(s, acc) ==
    IF s = <<>> THEN acc ELSE DecimalValue(Tail(s), MulAdd(acc, 10, DigitVal(Head(s))))

(***************************************************************************)
(* Errors (package insights)                                               *)
(***************************************************************************)
NoPos == <<-1, -1>>

Err(code, title) == [code |-> code, title |-> title, pos |-> NoPos]

\* the nil error
NoErr == Err("nil", "")

RuntimeErr(title) == Err("RuntimeErr", title)

SyntaxErr(title) == Err("SyntaxErr", title)

ParserErr(title) == Err("ParserErr", title)

InternalErr(title) == Err("InternalErr", title)

\* fmt.Errorf: an error that is no insights.Err
PlainErr(title) == Err("", title)

\* ErrIs: the error is an insights.Err and carries the code
ErrIs(err, code) == err.code # "nil" /\ err.code # "" /\ err.code = code

(***************************************************************************)
(* Token model                                                             *)
(***************************************************************************)
NilToken == [type |-> "nil"]

intToken(v) == [type |-> "int", int |-> v]

\* A float64 value: the whole part (a number in limbs, rounded to float64)
\* and the digits of the decimal fraction without trailing zeros.  Exact for
\* equality while the value has at most 15 significant decimal digits or no
\* fraction.
Float(whole, frac) == [whole |-> whole, frac |-> frac]

floatToken(f) == [type |-> "float", float |-> f]

boolToken(b) == [type |-> "bool", bool |-> b]

strToken(s) == [type |-> "str", str |-> s]

opToken(op) == [type |-> "op", op |-> op]

unaryPlaceholderToken == [type |-> "unary"]

Function(name) == [type |-> "func", fn |-> name]

\* a variable path: a sequence of segments
varToken(path) == [type |-> "var", path |-> path]

refToken(key, originalValue, origin) ==
    [type |-> "ref", key |-> key, originalValue |-> originalValue, origin |-> origin]

listToken(l) == [type |-> "list", list |-> l]

tupleToken(l) == [type |-> "tuple", tuple |-> l]

\* a map from keys to tokens; the nil map has no keys
mapToken(m) == [type |-> "map", map |-> m]

EmptyMap == <<>>

lazyJsonToken(value, json) == [type |-> "lazy", value |-> value, json |-> json]

\* Clone of every token variant returns an equal token (varToken copies its path)
Clone(token) == token

(***************************************************************************)
(* Precedence table and operator registry                                  *)
(***************************************************************************)
opPrecedence ==
    (<<"[", "]">> :> 2) @@ (<<"(", ")">> :> 2) @@ (<<".">> :> 2) @@
    (<<"*", "*">> :> 3) @@
    (<<"*">> :> 5) @@ (<<"/">> :> 5) @@ (<<"%">> :> 5) @@
    (<<"+">> :> 6) @@ (<<"-">> :> 6) @@
    (<<"<", "<">> :> 7) @@ (<<">", ">">> :> 7) @@
    (<<"<">> :> 9) @@ (<<"<", "=">> :> 9) @@ (<<">", "=">> :> 9) @@ (<<">">> :> 9) @@
    (<<"=", "=">> :> 10) @@ (<<"!", "=">> :> 10) @@
    (<<"&">> :> 11) @@
    (<<"^">> :> 12) @@
    (<<"|">> :> 13) @@
    (<<"&", "&">> :> 14) @@
    (<<"|", "|">> :> 15) @@
    (<<"=">> :> 16) @@
    (<<":">> :> 16) @@
    (<<",">> :> 17) @@
    (<<"L", "-">> :> 3) @@ (<<"L", "+">> :> 3) @@ (<<"L", "!">> :> 3) @@
    (<<"!">> :> 3)

\* opPrecedence[op] as Go reads a map: the zero value for a missing key
Precedence(op) == IF op \in DOMAIN opPrecedence THEN opPrecedence[op] ELSE 0

\* operator -> (left type, right type) -> implementation
operators ==
    (<<"=", "=">> :>
        ((<<"float", "float">> :> "equalsFloatOp") @@
         (<<"int", "int">> :> "equalsIntOp") @@
         (<<"float", "int">> :> "equalsFloatIntOp") @@
         (<<"int", "float">> :> "equalsIntFloatOp"))) @@
    (<<"!", "=">> :>
        ((<<"float", "float">> :> "differsOp") @@
         (<<"int", "int">> :> "differsOp") @@
         (<<"float", "int">> :> "differsFloatIntOp") @@
         (<<"int", "float">> :> "differsIntFloatOp")))

Range(s) == {s[k] : k \in DOMAIN s}

\* the runes used by the registered operators
opRunesSet == UNION {Range(k) : k \in DOMAIN operators}

(***************************************************************************)
(* RPN builder                                                             *)
(***************************************************************************)
No == <<"n", "o">>

\* the zero value of RPNBuilder
NewRPNBuilder ==
    [rpn |-> <<>>, opStack |-> <<>>, lastTokenWasOp |-> <<>>,
     lastTokenWasUnary |-> FALSE, bracketLevel |-> 0]

\* The prefix L and R is used for denoting left and right unary operators
normalizeOp(op) == IF op[1] = "L" \/ op[1] = "R" THEN Tail(op) ELSE op

RECURSIVE PopWhile(_, _, _)
\* the loop of handleOpStack: moves operators from the top of the opStack to
\* the rpn while the incoming precedence is >= the precedence of the top
PopWhile(r, op, l) ==
    IF l > 0 /\ Precedence(op) >= Precedence(r.opStack[l])
    THEN PopWhile([r EXCEPT !.rpn = Append(@, opToken(normalizeOp(r.opStack[l])))], op, l - 1)
    ELSE [r EXCEPT !.opStack = SubSeq(@, 1, l)]

handleOpStack(r, op) == PopWhile(r, op, Len(r.opStack))

handleBinaryOp(r, op) ==
    LET r1 == handleOpStack(r, op)
    IN  [r1 EXCEPT !.opStack = Append(@, op)]

\* a left unary operator that is pushed without its placeholder operand
handleLeftUnaryAlone(r, unaryOp) == [r EXCEPT !.opStack = Append(@, unaryOp)]

\* Convert left unary operators to binary and handle them
handleLeftUnary(r, unaryOp) ==
    [r EXCEPT !.rpn = Append(@, unaryPlaceholderToken),
              !.opStack = Append(@, unaryOp)]

\* Convert right unary operators to binary and handle them
handleRightUnary(r, unaryOp) ==
    LET r1 == handleOpStack(r, unaryOp)
    IN  [r1 EXCEPT !.rpn = @ \o <<unaryPlaceholderToken, opToken(normalizeOp(unaryOp))>>]

\* every builder method returns the builder after the call and its error
Ret(r, err) == [r |-> r, err |-> err]

handleOp(r, op) ==
    IF r.lastTokenWasOp # No
    THEN IF (<<"L">> \o op) \in DOMAIN opPrecedence
         THEN Ret([handleLeftUnary(r, <<"L">> \o op) EXCEPT
                      !.lastTokenWasUnary = TRUE, !.lastTokenWasOp = op], NoErr)
         ELSE Ret(r, SyntaxErr("unrecognized unary operator"))
    ELSE IF (<<"R">> \o op) \in DOMAIN opPrecedence
    THEN Ret([handleRightUnary(r, <<"R">> \o op) EXCEPT
                 !.lastTokenWasUnary = FALSE, !.lastTokenWasOp = No], NoErr)
    ELSE IF op \in DOMAIN opPrecedence
    THEN Ret([handleBinaryOp(r, op) EXCEPT
                 !.lastTokenWasUnary = FALSE, !.lastTokenWasOp = op], NoErr)
    ELSE Ret(r, SyntaxErr("unrecognized binary operator"))

handleToken(r, token) ==
    IF r.lastTokenWasOp = No
    THEN Ret(r, SyntaxErr("expected token to be an operator or bracket"))
    ELSE Ret([r EXCEPT !.rpn = Append(@, token), !.lastTokenWasOp = No,
                       !.lastTokenWasUnary = FALSE], NoErr)

\* an open bracket that leaves the unary flag as it was
openBracketKeepUnary(r, bracket) ==
    [r EXCEPT !.opStack = Append(@, bracket), !.lastTokenWasOp = bracket,
              !.bracketLevel = @ + 1]

openBracket(r, bracket) ==
    [r EXCEPT !.opStack = Append(@, bracket), !.lastTokenWasOp = bracket,
              !.lastTokenWasUnary = FALSE, !.bracketLevel = @ + 1]

RECURSIVE PopUntil(_, _, _)
\* the loop of closeBracket: moves operators to the rpn until the open bracket
\* is on top; returns the builder and the index l the loop stopped at
PopUntil(r, bracket, l) ==
    IF l > 0 /\ r.opStack[l] # bracket
    THEN PopUntil([r EXCEPT !.rpn = Append(@, opToken(normalizeOp(r.opStack[l])))], bracket, l - 1)
    ELSE [r |-> r, l |-> l]

closeBracket(r, bracket) ==
    IF r.lastTokenWasOp = bracket
    THEN Ret(r, SyntaxErr("bracket unexpectedly closed with no elements"))
    ELSE LET found == PopUntil(r, bracket, Len(r.opStack))
         IN  IF found.l = 0
             THEN Ret(found.r, SyntaxErr("extra closing bracket on the expression"))
             ELSE Ret([found.r EXCEPT !.lastTokenWasOp = No, !.lastTokenWasUnary = FALSE,
                                      !.bracketLevel = @ - 1,
                                      !.opStack = SubSeq(@, 1, found.l - 1)], NoErr)

RECURSIVE Drain(_, _)
\* the loop of FinishAndReturnRPN: every operator left goes to the rpn
Drain(r, l) ==
    IF l > 0
    THEN Drain([r EXCEPT !.rpn = Append(@, opToken(normalizeOp(r.opStack[l])))], l - 1)
    ELSE [r EXCEPT !.opStack = <<>>]

\* FinishAndReturnRPN: the builder after the call, the rpn returned and the
\* error; panic is set when r.opStack[l-1] indexes an empty opStack
FinishAndReturnRPN(r, pos) ==
    IF r.lastTokenWasUnary
    THEN IF Len(r.opStack) = 0
         THEN [r |-> r, rpn |-> <<>>, err |-> NoErr, panic |-> TRUE]
         ELSE [r |-> r, rpn |-> <<>>, panic |-> FALSE,
               err |-> [SyntaxErr("expected operand after unary operator") EXCEPT !.pos = pos]]
    ELSE LET r1 == Drain(r, Len(r.opStack))
         IN  IF Len(r1.rpn) = 0
             THEN [r |-> r1, rpn |-> <<>>, panic |-> FALSE,
                   err |-> ParserErr("invalid state: the final rpn ended up empty")]
             ELSE [r |-> r1, rpn |-> r1.rpn, err |-> NoErr, panic |-> FALSE]

(***************************************************************************)
(* Lexer and compiler driver                                               *)
(***************************************************************************)
\* expr[i] with the code's indices, which start at 0
At(expr, i) == expr[i + 1]

\* expr[from:to]
Slice(expr, from, to) == SubSeq(expr, from + 1, to)

NewParsingCtx == [currentLine |-> 0, lastLineStart |-> 0]

HandleNewLine(ctx, newLineRuneIdx) ==
    [currentLine |-> ctx.currentLine + 1, lastLineStart |-> newLineRuneIdx + 1]

\* FormatLineCol gives "line:col"; the model keeps the two numbers
FormatLineCol(ctx, i) == <<ctx.currentLine, i - ctx.lastLineStart>>

RECURSIVE SkipSpaces(_, _, _, _)
SkipSpaces(expr, index, i, ctx) ==
    IF i < Len(expr)
    THEN LET ctx1 == IF At(expr, i) = "\n" THEN HandleNewLine(ctx, i) ELSE ctx
         IN  IF ~IsSpace(At(expr, i)) THEN [i |-> i, ctx |-> ctx1]
             ELSE SkipSpaces(expr, index, i + 1, ctx1)
    ELSE [i |-> index, ctx |-> ctx]

\* consumeSpaces returns the index of the first character that is no space,
\* and the index it was given when only spaces are left
consumeSpaces(expr, index, ctx) == SkipSpaces(expr, index, index, ctx)

RECURSIVE VarEnd(_, _)
VarEnd(expr, i) ==
    IF i < Len(expr)
    THEN IF ~isVarChar(At(expr, i)) /\ ~IsNumber(At(expr, i)) /\ At(expr, i) # "_"
         THEN i ELSE VarEnd(expr, i + 1)
    ELSE Len(expr)

\* a parseVar that reads the name and returns the index it was given
parseVarInPlace(expr, index) ==
    [i |-> index, varName |-> Slice(expr, index, VarEnd(expr, index + 1))]

\* parseVar assumes the first character is already a valid starting character
parseVar(expr, index) ==
    LET end == VarEnd(expr, index + 1)
    IN  [i |-> end, varName |-> Slice(expr, index, end)]

isNumberFn(base, c) == IF base = 16 THEN isValidHexDigit(c) ELSE IsNumber(c)

RECURSIVE SkipDigits(_, _, _)
SkipDigits(expr, i, base) ==
    IF i < Len(expr) /\ isNumberFn(base, At(expr, i)) THEN SkipDigits(expr, i + 1, base) ELSE i

RECURSIVE NumberEnd(_, _, _)
\* the loop that finds the end of the numerical literal; the decimal part
\* is looked for among the characters isNumberFn accepts
NumberEnd(expr, i, base) ==
    IF i < Len(expr) /\ isNumberFn(base, At(expr, i))
    THEN IF At(expr, i) = "."
         THEN [i |-> SkipDigits(expr, i + 1, base), isFloat |-> TRUE]
         ELSE NumberEnd(expr, i + 1, base)
    ELSE [i |-> i, isFloat |-> FALSE]

RECURSIVE StripZeros(_)
StripZeros(s) == IF s # <<>> /\ s[Len(s)] = "0" THEN StripZeros(SubSeq(s, 1, Len(s) - 1)) ELSE s

\* strconv.ParseFloat of digits "." digits
ParseFloat(s) ==
    LET dot == CHOOSE k \in 1..Len(s) : s[k] = "." /\ \A j \in 1..(k - 1) : s[j] # "."
    IN  Float(float64(DecimalValue(SubSeq(s, 1, dot - 1), Zero)),
              StripZeros(SubSeq(s, dot + 1, Len(s))))

parseNumber(expr, index) ==
    LET pre == IF At(expr, index) = "0" /\ index + 1 < Len(expr)
               THEN IF At(expr, index + 1) = "x" THEN [base |-> 16, i |-> index + 2]
                    ELSE IF At(expr, index + 1) = "b" THEN [base |-> 2, i |-> index + 2]
                    ELSE IF IsNumber(At(expr, index + 1)) THEN [base |-> 8, i |-> index + 1]
                    ELSE [base |-> 10, i |-> index]
               ELSE [base |-> 10, i |-> index]
        end == NumberEnd(expr, pre.i, pre.base)
        literal == Slice(expr, index, end.i)
    IN  IF end.isFloat
        THEN IF pre.base # 10
             THEN [i |-> 0, token |-> NilToken,
                   err |-> SyntaxErr("only base 10 literals can have decimals")]
             ELSE [i |-> end.i, token |-> floatToken(ParseFloat(literal)), err |-> NoErr]
        ELSE LET num == ParseInt(literal)
             IN  IF ~num.ok
                 THEN [i |-> 0, token |-> NilToken,
                       err |-> SyntaxErr("error parsing numeric literal")]
                 ELSE [i |-> end.i, token |-> intToken(num.v), err |-> NoErr]

\* no reserved word has a parser
reservedWordParsers == {}

\* The state of parse: the source, the compile-time bindings, the cursor,
\* the builder, the line counters and the outcome.  status is "run" inside
\* the main loop, then "ok" (rpn returned), "err" (err returned) or "panic".
NewParse(expr, bindings) ==
    LET sp == consumeSpaces(expr, 0, NewParsingCtx)
    IN  IF Len(expr) = 0
        THEN [expr |-> expr, bindings |-> bindings, i |-> 0, r |-> NewRPNBuilder,
              ctx |-> NewParsingCtx, status |-> "err", rpn |-> <<>>,
              err |-> PlainErr("cannot build an expression from an empty string")]
        ELSE [expr |-> expr, bindings |-> bindings, i |-> sp.i, r |-> NewRPNBuilder,
              ctx |-> sp.ctx, status |-> "run", rpn |-> <<>>, err |-> NoErr]

Fail(st, err) == [st EXCEPT !.status = "err", !.err = err, !.rpn = <<>>]

Panic(st) == [st EXCEPT !.status = "panic", !.rpn = <<>>]

\* the end of an iteration: i = consumeSpaces(expr, i, &parsingCtx)
EndIteration(st) ==
    LET sp == consumeSpaces(st.expr, st.i, st.ctx)
    IN  [st EXCEPT !.i = sp.i, !.ctx = sp.ctx]

InLoop(st) == st.status = "run" /\ st.i < Len(st.expr) /\ At(st.expr, st.i) # ";"

NumberCase(st) ==
    LET n == parseNumber(st.expr, st.i)
    IN  IF n.err # NoErr THEN Fail([st EXCEPT !.i = n.i], n.err)
        ELSE EndIteration([st EXCEPT !.i = n.i, !.r = handleToken(st.r, n.token).r])

IdentifierCase(st) ==
    LET v == parseVar(st.expr, st.i)
        r1 == handleToken(st.r, varToken(<<v.varName>>)).r
        st1 == [st EXCEPT !.i = v.i, !.r = r1]
    IN  IF v.varName \in reservedWordParsers THEN st1
        ELSE IF v.varName \in DOMAIN st.bindings
        THEN LET ref == handleToken(r1, refToken(<<v.varName>>, st.bindings[v.varName], NilToken))
             IN  IF ref.err # NoErr THEN Fail(st1, ref.err)
                 ELSE EndIteration([st1 EXCEPT !.r = ref.r])
        ELSE EndIteration([st1 EXCEPT !.r = handleToken(r1, varToken(<<v.varName>>)).r])

RECURSIVE StringBody(_, _, _, _, _)
\* the loop over the characters of a string literal; panic is set when
\* expr[i+1] is read past the end of the input
StringBody(expr, quote, i, str, ctx) ==
    IF i < Len(expr) /\ At(expr, i) # quote /\ At(expr, i) # "\n"
    THEN IF At(expr, i) = "\\"
         THEN IF i + 1 >= Len(expr) THEN [i |-> i, str |-> str, ctx |-> ctx, panic |-> TRUE]
              ELSE IF At(expr, i + 1) = "n" THEN StringBody(expr, quote, i + 2, Append(str, "\n"), ctx)
              ELSE IF At(expr, i + 1) = "t" THEN StringBody(expr, quote, i + 2, Append(str, "\t"), ctx)
              ELSE IF At(expr, i + 1) \in {"\"", "'"}
              THEN StringBody(expr, quote, i + 2, Append(str, At(expr, i + 1)), ctx)
              ELSE IF At(expr, i + 1) = "\n"
              THEN StringBody(expr, quote, i + 2, Append(str, At(expr, i + 1)),
                              HandleNewLine(ctx, i + 1))
              ELSE StringBody(expr, quote, i + 1, Append(str, At(expr, i)), ctx)
         ELSE StringBody(expr, quote, i + 1, Append(str, At(expr, i)), ctx)
    ELSE [i |-> i, str |-> str, ctx |-> ctx, panic |-> FALSE]

StringCase(st) ==
    LET quote == At(st.expr, st.i)
        formattedPos == FormatLineCol(st.ctx, st.i)
        body == StringBody(st.expr, quote, st.i + 1, <<>>, st.ctx)
        st1 == [st EXCEPT !.i = body.i, !.ctx = body.ctx]
    IN  IF body.panic THEN Panic(st1)
        \* expr[i] != quote indexes the input at i
        ELSE IF body.i >= Len(st.expr) THEN Panic(st1)
        ELSE IF At(st.expr, body.i) # quote
        THEN Fail(st1, [SyntaxErr("string literal not terminated") EXCEPT !.pos = formattedPos])
        ELSE EndIteration([st1 EXCEPT !.i = body.i + 1,
                                      !.r = handleToken(st.r, strToken(body.str)).r])

OpenBrackets == {"(", "[", "{"}

CloseBrackets == {")", "]", "}"}

Opener(c) == IF c = ")" THEN "(" ELSE IF c = "]" THEN "[" ELSE "{"

BracketCase(st) ==
    LET c == At(st.expr, st.i)
        r == st.r
        r1 == CASE c = "(" ->
                     openBracket(IF r.lastTokenWasOp = No THEN handleOp(r, <<"(", ")">>).r ELSE r,
                                 <<"(">>)
                [] c = "[" ->
                     openBracket(IF r.lastTokenWasOp = No THEN handleOp(r, <<"[", "]">>).r
                                 ELSE handleOp(handleToken(r, Function("NewListToken")).r,
                                               <<"(", ")">>).r,
                                 <<"[">>)
                [] c = "{" ->
                     openBracket(handleOp(handleToken(r, Function("NewMapToken")).r,
                                          <<"(", ")">>).r,
                                 <<"{">>)
                [] OTHER -> closeBracket(r, <<Opener(c)>>).r
    IN  EndIteration([st EXCEPT !.i = st.i + 1, !.r = r1])

\* These ops are here to serve as ending characters so that expressions such
\* as 10 *-3 don't interpret *- as a single operator
opStartingChars == {"+", "-", "'", "\"", "(", ")", "[", "]", "{", "}", "_"}

RECURSIVE OpEnd(_, _)
OpEnd(expr, i) ==
    IF i < Len(expr) /\ At(expr, i) \in opRunesSet /\ At(expr, i) \notin opStartingChars
    THEN OpEnd(expr, i + 1) ELSE i

OperatorCase(st) ==
    LET start == st.i
        end == OpEnd(st.expr, start + 1)
        op == Slice(st.expr, start, end)
        st1 == [st EXCEPT !.i = end]
    IN  IF op \in reservedWordParsers THEN st1
        ELSE IF op \in DOMAIN opPrecedence
        THEN EndIteration([st1 EXCEPT !.r = handleOp(st.r, op).r])
        ELSE IF <<op[1]>> \in reservedWordParsers THEN [st1 EXCEPT !.i = start + 1]
        ELSE Fail(st1, [SyntaxErr("unrecognized operator") EXCEPT
                            !.pos = FormatLineCol(st.ctx, end)])

IsNumberStart(st) == IsNumber(At(st.expr, st.i))

IsIdentifierStart(st) == ~IsNumberStart(st) /\ isVarChar(At(st.expr, st.i))

IsStringStart(st) ==
    ~IsNumberStart(st) /\ ~IsIdentifierStart(st) /\ At(st.expr, st.i) \in {"'", "\""}

IsBracket(st) ==
    /\ ~IsNumberStart(st) /\ ~IsIdentifierStart(st) /\ ~IsStringStart(st)
    /\ At(st.expr, st.i) \in OpenBrackets \cup CloseBrackets

IsOperatorStart(st) ==
    ~IsNumberStart(st) /\ ~IsIdentifierStart(st) /\ ~IsStringStart(st) /\ ~IsBracket(st)

\* after the main loop: rpnBuilder.FinishAndReturnRPN(expr, i, parsingCtx)
Finish(st) ==
    LET f == FinishAndReturnRPN(st.r, FormatLineCol(st.ctx, st.i))
    IN  IF f.panic THEN Panic([st EXCEPT !.r = f.r])
        ELSE IF f.err # NoErr THEN Fail([st EXCEPT !.r = f.r], f.err)
        ELSE [st EXCEPT !.r = f.r, !.status = "ok", !.rpn = f.rpn]

\* one iteration of the main loop of parse, or the finalisation after it
ParseStep(st) ==
    IF ~InLoop(st) THEN Finish(st)
    ELSE IF IsNumberStart(st) THEN NumberCase(st)
    ELSE IF IsIdentifierStart(st) THEN IdentifierCase(st)
    ELSE IF IsStringStart(st) THEN StringCase(st)
    ELSE IF IsBracket(st) THEN BracketCase(st)
    ELSE OperatorCase(st)

RECURSIVE ParseRun(_)
ParseRun(st) == IF st.status = "run" THEN ParseRun(ParseStep(st)) ELSE st

\* parse(strExpr, vars): the state parse ends in
parse(strExpr, bindings) == ParseRun(NewParse(strExpr, bindings))

(***************************************************************************)
(* Lazy JSON binding                                                       *)
(*                                                                         *)
(* encoding/json is outside the repository: a JSON text is modelled by its *)
(* parsed shape, and the byte the code switches on is derived from it.     *)
(***************************************************************************)
\* a JSON number written as digits, with an optional leading "-" and an
\* optional "." fraction
JNumber(text) == [kind |-> "number", text |-> text]

JString(s) == [kind |-> "string", str |-> s]

JBool(b) == [kind |-> "bool", bool |-> b]

JNull == [kind |-> "null"]

\* an object: a function from keys to JSON values
JObject(members) == [kind |-> "object", members |-> members]

JArray(elems) == [kind |-> "array", elems |-> elems]

\* bytes that are no JSON text
JMalformed == [kind |-> "malformed"]

\* rawJSON[0] after bytes.TrimSpace
FirstByte(j) ==
    CASE j.kind = "number" -> j.text[1]
      [] j.kind = "string" -> "\""
      [] j.kind = "bool" -> IF j.bool THEN "t" ELSE "f"
      [] j.kind = "null" -> "n"
      [] j.kind = "object" -> "{"
      [] j.kind = "array" -> "["
      [] OTHER -> "?"

\* a number read without its decimal fraction
UnmarshalWhole(text) ==
    Float(float64(DecimalValue(SelectSeq(text, LAMBDA c : c \in Digits), Zero)), <<>>)

\* json.Unmarshal of a number into a float64
UnmarshalFloat(text) ==
    IF \E k \in 1..Len(text) : text[k] = "." THEN ParseFloat(text)
    ELSE Float(float64(DecimalValue(text, Zero)), <<>>)

\* an unmarshal that reports no error and leaves the map empty for what is
\* no object
UnmarshalLenient(j) ==
    [ok |-> TRUE, m |-> IF j.kind = "object" THEN j.members ELSE EmptyMap]

\* json.Unmarshal(b, &m) into a map[string]json.RawMessage: an error for
\* everything but an object and null, which leaves the map nil
UnmarshalObject(j) ==
    IF j.kind = "object" THEN [ok |-> TRUE, m |-> j.members]
    ELSE IF j.kind = "null" THEN [ok |-> TRUE, m |-> EmptyMap]
    ELSE [ok |-> FALSE, m |-> EmptyMap]

LazyMembers(m) == [k \in DOMAIN m |-> lazyJsonToken(NilToken, m[k])]

NewLazyJsonMap(b) ==
    LET u == UnmarshalObject(b)
    IN  IF ~u.ok THEN [m |-> EmptyMap, err |-> ParserErr("bad input json received")]
        ELSE [m |-> LazyMembers(u.m), err |-> NoErr]

unmarshalLazyValue(rawJSON) ==
    LET c == FirstByte(rawJSON)
    IN  IF c \in Digits
        THEN [token |-> floatToken(UnmarshalFloat(rawJSON.text)), err |-> NoErr]
        ELSE IF c = "\"" THEN [token |-> strToken(rawJSON.str), err |-> NoErr]
        ELSE IF c \in {"f", "t"} THEN [token |-> boolToken(rawJSON.bool), err |-> NoErr]
        ELSE IF c = "{"
        THEN [token |-> mapToken(LazyMembers(rawJSON.members)), err |-> NoErr]
        ELSE IF c = "["
        THEN [token |-> listToken([k \in DOMAIN rawJSON.elems |->
                                       lazyJsonToken(NilToken, rawJSON.elems[k])]),
              err |-> NoErr]
        ELSE [token |-> NilToken,
              err |-> InternalErr("unrecognized JSON value received on unmarshalLazyValue")]

\* the receiver if Value had a pointer receiver: the assignment reaches the
\* token the map holds
MemoiseInPlace(l, value) == [l EXCEPT !.value = value]

\* The receiver of Value after `l.value, err = unmarshalLazyValue(l.json)`,
\* as the caller sees it: Value has a value receiver, the assignment is made
\* to the callee's copy.
Memoise(l, value) == l

\* lazyJsonToken.Value: the value, the receiver after the call, and whether
\* the call panics
lazyJsonToken_Value(l) ==
    IF l.value = NilToken
    THEN LET u == unmarshalLazyValue(l.json)
         IN  IF u.err # NoErr THEN [value |-> NilToken, l |-> l, panic |-> TRUE]
             ELSE [value |-> u.token, l |-> Memoise(l, u.token), panic |-> FALSE]
    ELSE [value |-> l.value, l |-> l, panic |-> FALSE]

(***************************************************************************)
(* Variable and reference resolution                                       *)
(***************************************************************************)
\* json.Marshal of a string
MarshalString(s) ==
    LET Esc(c) == IF c \in {"\"", "\\"} THEN <<"\\", c>>
                  ELSE IF c = "\n" THEN <<"\\", "n">>
                  ELSE IF c = "\t" THEN <<"\\", "t">>
                  ELSE <<c>>
        F[k \in 0..Len(s)] == IF k = 0 THEN <<>> ELSE F[k - 1] \o Esc(s[k])
    IN  <<"\"">> \o F[Len(s)] \o <<"\"">>

\* the printable form of one segment after the first
SegmentString(str) ==
    LET onlyVarChars == /\ isVarChar(str[1])
                        /\ \A k \in 2..Len(str) : isVarChar(str[k]) \/ IsNumber(str[k])
    IN  IF onlyVarChars THEN <<".">> \o str ELSE <<"[">> \o MarshalString(str) \o <<"]">>

\* varToken.String: the printable form of the path; panic is set when
\* str[0] indexes an empty segment
varToken_String(v) ==
    LET F[k \in 1..Len(v)] == IF k = 1 THEN v[1] ELSE F[k - 1] \o SegmentString(v[k])
    IN  IF Len(v) = 0 THEN [s |-> <<>>, panic |-> FALSE]
        ELSE IF \E k \in 2..Len(v) : v[k] = <<>> THEN [s |-> <<>>, panic |-> TRUE]
        ELSE [s |-> F[Len(v)], panic |-> FALSE]

\* return strToken(v.String())
PathAsString(v, vars) ==
    LET s == varToken_String(v)
    IN  [token |-> IF s.panic THEN NilToken ELSE strToken(s.s), vars |-> vars, panic |-> s.panic]

\* vars[key], and the value of a lazyJsonToken found there
Lookup(m, key) ==
    IF key \notin DOMAIN m THEN [value |-> NilToken, l |-> NilToken, panic |-> FALSE]
    ELSE IF m[key].type = "lazy" THEN lazyJsonToken_Value(m[key])
    ELSE [value |-> m[key], l |-> m[key], panic |-> FALSE]

RECURSIVE Walk(_, _, _, _)
\* the loop of varToken.Resolve over the segments after the first
Walk(v, vars, value, k) ==
    IF k > Len(v)
    THEN IF value = NilToken THEN PathAsString(v, vars)
         ELSE [token |-> value, vars |-> vars, panic |-> FALSE]
    ELSE IF value.type # "map" THEN PathAsString(v, vars)
    ELSE LET next == Lookup(value.map, v[k])
         IN  IF next.panic THEN [token |-> NilToken, vars |-> vars, panic |-> TRUE]
             ELSE Walk(v, vars, next.value, k + 1)

\* varToken.Resolve(vars): the token returned, the map vars after the call,
\* and whether the call panics
varToken_Resolve(v, vars) ==
    IF Len(v) = 0 THEN [token |-> NilToken, vars |-> vars, panic |-> TRUE]
    ELSE LET first == Lookup(vars, v[1])
             vars1 == IF v[1] \in DOMAIN vars THEN [vars EXCEPT ![v[1]] = first.l] ELSE vars
         IN  IF first.panic THEN [token |-> NilToken, vars |-> vars, panic |-> TRUE]
             ELSE Walk(v, vars1, first.value, 2)

\* refToken.Resolve(localScope); the local scope of an evaluation is never nil
refToken_Resolve(ref, localScope) ==
    IF ref.origin = NilToken
    THEN LET refValue == varToken_Resolve(ref.key, localScope)
         IN  IF refValue.panic \/ refValue.token # NilToken THEN refValue
             ELSE [token |-> ref.originalValue, vars |-> refValue.vars, panic |-> FALSE]
    ELSE [token |-> ref.originalValue, vars |-> localScope, panic |-> FALSE]

(***************************************************************************)
(* Evaluator                                                               *)
(***************************************************************************)
\* float64(t.(intToken)) as a float value
FloatOfInt(v) == Float(float64(v), <<>>)

equalsIntOp(t1, t2) == boolToken(t1 = t2)

equalsFloatOp(t1, t2) == boolToken(t1 = t2)

equalsIntFloatOp(t1, t2) == boolToken(floatToken(FloatOfInt(t1.int)) = t2)

\* the comparison of a Float with an Int without the conversion of the Int
equalsUnpromoted(t1, t2) == boolToken(t1 = t2)

equalsFloatIntOp(t1, t2) == boolToken(t1 = floatToken(FloatOfInt(t2.int)))

differsOp(t1, t2) == boolToken(t1 # t2)

differsIntFloatOp(t1, t2) == boolToken(floatToken(FloatOfInt(t1.int)) # t2)

differsFloatIntOp(t1, t2) == boolToken(t1 # floatToken(FloatOfInt(t2.int)))

\* opFunc(left, right, op, data)
RunOperator(opFunc, left, right) ==
    CASE opFunc = "equalsIntOp" -> equalsIntOp(left, right)
      [] opFunc = "equalsFloatOp" -> equalsFloatOp(left, right)
      [] opFunc = "equalsIntFloatOp" -> equalsIntFloatOp(left, right)
      [] opFunc = "equalsFloatIntOp" -> equalsFloatIntOp(left, right)
      [] opFunc = "differsOp" -> differsOp(left, right)
      [] opFunc = "differsIntFloatOp" -> differsIntFloatOp(left, right)
      [] opFunc = "differsFloatIntOp" -> differsFloatIntOp(left, right)

\* newOpTypePair: the dynamic types of the two operands
newOpTypePair(t1, t2) == <<t1.type, t2.type>>

findAndRunOperator(op, left, right) ==
    IF op \notin DOMAIN operators
    THEN [token |-> NilToken, err |-> SyntaxErr("unrecognized operator")]
    ELSE IF newOpTypePair(left, right) \notin DOMAIN operators[op]
    THEN [token |-> NilToken, err |-> SyntaxErr("unsupported types for operator")]
    ELSE [token |-> RunOperator(operators[op][newOpTypePair(left, right)], left, right),
          err |-> NoErr]

\* the operands taken in the other order: the top of the stack as left
popRightAndLeftOperands(evalStack) ==
    LET l == Len(evalStack)
    IN  IF l < 2
        THEN [stack |-> <<>>, left |-> NilToken, right |-> NilToken,
              err |-> InternalErr("missing operands for operator")]
        ELSE [stack |-> SubSeq(evalStack, 1, l - 2), left |-> evalStack[l],
              right |-> evalStack[l - 1], err |-> NoErr]

popLeftAndRightOperands(evalStack) ==
    LET l == Len(evalStack)
    IN  IF l < 2
        THEN [stack |-> <<>>, left |-> NilToken, right |-> NilToken,
              err |-> InternalErr("missing operands for operator")]
        ELSE [stack |-> SubSeq(evalStack, 1, l - 2), left |-> evalStack[l - 1],
              right |-> evalStack[l], err |-> NoErr]

copyRPN(rpn) == [k \in DOMAIN rpn |-> Clone(rpn[k])]

NewListToken(args) == [token |-> listToken(args), err |-> NoErr]

\* NewMapToken takes only KeyValuePair arguments, which no operator builds
NewMapToken(args) ==
    IF args = <<>> THEN [token |-> mapToken(EmptyMap), err |-> NoErr]
    ELSE [token |-> NilToken,
          err |-> SyntaxErr("map constructor expects only key: value pairs")]

CallFunction(fn, args) ==
    IF fn.fn = "NewListToken" THEN NewListToken(args) ELSE NewMapToken(args)

\* execFunc calls fn, drops what it returns and returns nil, nil
execFunc(this, fn, args, vars) ==
    LET called == CallFunction(fn, args)
    IN  [token |-> NilToken, err |-> NoErr]

\* the outcome of a call: a token, an error or a panic
Returned(token) == [kind |-> "token", token |-> token, err |-> NoErr]

Failed(err) == [kind |-> "err", token |-> NilToken, err |-> err]

Panicked == [kind |-> "panic", token |-> NilToken, err |-> NoErr]

Pending == [kind |-> "none", token |-> NilToken, err |-> NoErr]

\* the stack a call would start from if evaluate kept its stack between calls
KeepEvalStack(old) == old

\* evalStack := []Token{} : every call starts from its own empty stack,
\* whatever an earlier call left
NewEvalStack(old) == <<>>

\* The locals of one call of evaluate: the cloned rpn, the loop index i and
\* the outcome once the call has returned.
NewEvaluate(originalRpn) == [rpn |-> copyRPN(originalRpn), i |-> 0, out |-> Pending]

\* the operand of an operator: a refToken is resolved against the scope
Operand(v, vars) ==
    IF v.type = "ref" THEN refToken_Resolve(v, vars)
    ELSE [token |-> v, vars |-> vars, panic |-> FALSE]

\* One iteration of the loop of evaluate on the locals e, the scope vars and
\* the stack: the three after the iteration.
EvaluateToken(e, vars, evalStack) ==
    LET token == e.rpn[e.i + 1]
        resolved == IF token.type = "var" THEN varToken_Resolve(token.path, vars)
                    ELSE [token |-> token, vars |-> vars, panic |-> FALSE]
    IN  IF resolved.panic
        THEN [e |-> [e EXCEPT !.out = Panicked], vars |-> resolved.vars, stack |-> evalStack]
        ELSE [e |-> [e EXCEPT !.i = @ + 1], vars |-> resolved.vars,
              stack |-> Append(evalStack, resolved.token)]

\* the function call or the operation, once both operands are resolved
ApplyOperator(e, op, stack, left, right) ==
    LET isCall == left.token.type = "func" /\ op = <<"(", ")">>
        args == IF right.token.type = "tuple" THEN right.token.tuple ELSE <<right.token>>
        resp == IF isCall THEN execFunc(left.vars, left.token, args, left.vars)
                ELSE findAndRunOperator(op, left.token, right.token)
    IN  IF right.panic \/ left.panic
        THEN [e |-> [e EXCEPT !.out = Panicked], vars |-> left.vars, stack |-> stack]
        ELSE IF resp.err # NoErr
        THEN [e |-> [e EXCEPT !.out = Failed(RuntimeErr(IF isCall THEN "error parsing function"
                                                        ELSE "operation error"))],
              vars |-> left.vars, stack |-> stack]
        ELSE [e |-> [e EXCEPT !.i = @ + 1], vars |-> left.vars,
              stack |-> Append(stack, resp.token)]

\* the left operand is resolved after the right one
ResolveLeft(e, op, popped, right) ==
    ApplyOperator(e, op, popped.stack, Operand(popped.left, right.vars), right)

EvaluateOperator(e, vars, evalStack) ==
    LET popped == popLeftAndRightOperands(evalStack)
    IN  IF popped.err # NoErr
        THEN [e |-> [e EXCEPT !.out = Failed(popped.err)], vars |-> vars, stack |-> evalStack]
        ELSE ResolveLeft(e, e.rpn[e.i + 1].op, popped, Operand(popped.right, vars))

\* after the loop: the stack must hold the result alone
EvaluateReturn(e, vars, evalStack) ==
    [e |-> [e EXCEPT !.out =
                IF Len(evalStack) # 1
                THEN Failed(InternalErr("the evalStack should contains a single element at the end"))
                ELSE Returned(evalStack[1])],
     vars |-> vars, stack |-> evalStack]

EvaluateStep(e, vars, evalStack) ==
    IF e.i >= Len(e.rpn) THEN EvaluateReturn(e, vars, evalStack)
    ELSE IF e.rpn[e.i + 1].type = "op" THEN EvaluateOperator(e, vars, evalStack)
    ELSE EvaluateToken(e, vars, evalStack)

RECURSIVE EvaluateRun(_, _, _)
EvaluateRun(e, vars, evalStack) ==
    IF e.out # Pending THEN e.out
    ELSE LET s == EvaluateStep(e, vars, evalStack)
         IN  EvaluateRun(s.e, s.vars, s.stack)

\* evaluate(originalRpn, vars): the outcome of the call run on its own
evaluate(originalRpn, vars) == EvaluateRun(NewEvaluate(originalRpn), vars, <<>>)

\* BoolExpr.Evaluate after evaluate has returned out: the boolean and the
\* error returned, or a panic when token.String() is called on a nil token
AssertBool(out) ==
    IF out.kind = "panic" THEN [kind |-> "panic", bool |-> FALSE, err |-> NoErr]
    ELSE IF out.kind = "err" THEN [kind |-> "return", bool |-> FALSE, err |-> out.err]
    ELSE IF out.token.type = "bool" THEN [kind |-> "return", bool |-> out.token.bool, err |-> NoErr]
    ELSE IF out.token = NilToken THEN [kind |-> "panic", bool |-> FALSE, err |-> NoErr]
    ELSE [kind |-> "return", bool |-> FALSE,
          err |-> InternalErr("expression should evaluate to a boolean")]

\* BoolExpr.Evaluate(logLine) run on its own
BoolExpr_Evaluate(rpn, logLine) ==
    LET m == NewLazyJsonMap(logLine)
    IN  IF m.err # NoErr THEN [kind |-> "return", bool |-> FALSE, err |-> m.err]
        ELSE AssertBool(evaluate(rpn, m.m))

(***************************************************************************)
(* Inputs                                                                  *)
(***************************************************************************)
\* the longest source made of arbitrary characters
MaxSrcLen == 2

\* the characters arbitrary sources are made of
SrcAlphabet == {"1", "a", "+", "*", "(", ")", "\"", " ", ";"}

RECURSIVE SeqsUpTo(_, _)
SeqsUpTo(S, n) ==
    IF n = 0 THEN {<<>>}
    ELSE LET shorter == SeqsUpTo(S, n - 1)
         IN  shorter \cup {Append(s, c) : s \in {q \in shorter : Len(q) = n - 1}, c \in S}

ShortSources == SeqsUpTo(SrcAlphabet, MaxSrcLen)

\* a == L and a != L
CmpSource(op, literal) == <<"a", " ">> \o op \o <<" ">> \o literal

CmpOps == {<<"=", "=">>, <<"!", "=">>}

\* Integer literals with the number each denotes, written in base 10.
\* 9007199254740992 is 2^53 and 9223372036854775807 is 2^63 - 1.
Literals ==
    { [text |-> <<"0">>, denotes |-> <<"0">>],
      [text |-> <<"1">>, denotes |-> <<"1">>],
      [text |-> <<"1", "0">>, denotes |-> <<"1", "0">>],
      [text |-> <<"0", "b", "1">>, denotes |-> <<"1">>],
      [text |-> <<"0", "b", "1", "0", "1", "0">>, denotes |-> <<"1", "0">>],
      [text |-> <<"0", "1">>, denotes |-> <<"1">>],
      [text |-> <<"0", "1", "2">>, denotes |-> <<"1", "0">>],
      [text |-> <<"0", "x", "1">>, denotes |-> <<"1">>],
      [text |-> <<"0", "x", "A">>, denotes |-> <<"1", "0">>],
      [text |-> <<"0", "x", "a">>, denotes |-> <<"1", "0">>],
      [text |-> <<"9", "0", "0", "7", "1", "9", "9", "2", "5", "4", "7", "4", "0", "9", "9", "2">>,
       denotes |-> <<"9", "0", "0", "7", "1", "9", "9", "2", "5", "4", "7", "4", "0", "9", "9", "2">>],
      [text |-> <<"0", "x", "2", "0", "0", "0", "0", "0", "0", "0", "0", "0", "0", "0", "0", "0">>,
       denotes |-> <<"9", "0", "0", "7", "1", "9", "9", "2", "5", "4", "7", "4", "0", "9", "9", "2">>],
      [text |-> <<"9", "0", "0", "7", "1", "9", "9", "2", "5", "4", "7", "4", "0", "9", "9", "3">>,
       denotes |-> <<"9", "0", "0", "7", "1", "9", "9", "2", "5", "4", "7", "4", "0", "9", "9", "3">>],
      [text |-> <<"9", "2", "2", "3", "3", "7", "2", "0", "3", "6", "8", "5", "4", "7", "7", "5", "8", "0", "7">>,
       denotes |-> <<"9", "2", "2", "3", "3", "7", "2", "0", "3", "6", "8", "5", "4", "7", "7", "5", "8", "0", "7">>],
      [text |-> <<"9", "2", "2", "3", "3", "7", "2", "0", "3", "6", "8", "5", "4", "7", "7", "5", "8", "0", "8">>,
       denotes |-> <<"9", "2", "2", "3", "3", "7", "2", "0", "3", "6", "8", "5", "4", "7", "7", "5", "8", "0", "8">>],
      [text |-> <<"0", "x", "7", "f", "f", "f", "f", "f", "f", "f", "f", "f", "f", "f", "f", "f", "f", "f">>,
       denotes |-> <<"9", "2", "2", "3", "3", "7", "2", "0", "3", "6", "8", "5", "4", "7", "7", "5", "8", "0", "7">>],
      [text |-> <<"0", "x", "8", "0", "0", "0", "0", "0", "0", "0", "0", "0", "0", "0", "0", "0", "0", "0">>,
       denotes |-> <<"9", "2", "2", "3", "3", "7", "2", "0", "3", "6", "8", "5", "4", "7", "7", "5", "8", "0", "8">>],
      [text |-> <<"0", "1", "0", "0", "0", "0", "0", "0", "0", "0", "0", "0", "0", "0", "0", "0", "0", "0", "0", "0", "0", "0", "0">>,
       denotes |-> <<"9", "2", "2", "3", "3", "7", "2", "0", "3", "6", "8", "5", "4", "7", "7", "5", "8", "0", "8">>] }

CmpSources == {CmpSource(op, l.text) : op \in CmpOps, l \in Literals}

\* sources the claims name
NamedSources ==
    { <<"\"", "a", "b">>, <<"\"", "a", "b", "\n">>, <<"\"", "a", "b", "\"">>,
      <<"'", "a", "\\">>, <<"[", "1", "]">>, <<"{", "1", "}">>, <<"1", " ", "*">>,
      <<"a", " ", "=", "=", " ", "a">>, <<"1", " ", "=", "=", " ", "1">>,
      <<"1", " ", "!", "=", " ", "1">>, <<"a", ".", "b">>,
      <<"1", ".", "5">>, <<"0", "x", "1", ".", "5">>, <<"0", "b", "1", ".", "1">>,
      <<"1", " ", "2">>, <<"a", " ", "\"", "b", "\"">>, <<"\"", "a", "\"", " ", "1">>,
      <<" ", "a", " ", "=", "=", " ", "1">>, <<"a", " ", "=", "=", "\n", "1">>,
      <<"a", "\t", "=", "=", " ", "1">>, <<"a", " ", "=", "=", " ", "1", " ">>,
      <<"a", " ", "=", "=", " ", "1", "\n">>,
      <<"[", "]">>, <<"{", "}">>, <<"a", ")">>, <<"[", "(", "a", "]">>, <<"(", "a", "]">>,
      <<"*", "-", "1">>, <<"a", " ", "+", " ", "*", " ", "b">>, <<"(", "*", "1", ")">>,
      <<"1", " ", "<", " ", "1">>, <<"a", " ", "<", "=", " ", "1">>, <<"a", " ", ">", " ", "a">>,
      <<"1", " ", ">", "=", " ", "a">>, <<"\"", "a", "\"", " ", "=", "=", " ", "\"", "a", "\"">>,
      <<"1", " ", "!", "=", " ", "a">>, <<"a", " ", "!", "=", " ", "a">>,
      <<"1", " ", "=", "=", " ", "a">>,
      <<"9", "0", "0", "7", "1", "9", "9", "2", "5", "4", "7", "4", "0", "9", "9", "2">> \o <<" ", "=", "=", " ">> \o
          <<"9", "0", "0", "7", "1", "9", "9", "2", "5", "4", "7", "4", "0", "9", "9", "3">> }

\* binary operators of three ranks of opPrecedence
PrecOps == {<<"*">>, <<"+">>, <<"=", "=">>}

Sp == <<" ">>

\* a o1 b o2 c
Flat(o1, o2) == <<"a">> \o Sp \o o1 \o Sp \o <<"b">> \o Sp \o o2 \o Sp \o <<"c">>

\* (a o1 b) o2 c
GroupLeft(o1, o2) ==
    <<"(", "a">> \o Sp \o o1 \o Sp \o <<"b", ")">> \o Sp \o o2 \o Sp \o <<"c">>

\* a o1 (b o2 c)
GroupRight(o1, o2) ==
    <<"a">> \o Sp \o o1 \o Sp \o <<"(", "b">> \o Sp \o o2 \o Sp \o <<"c", ")">>

\* the source with the tighter-binding operator (lower rank) in parentheses
Grouped(o1, o2) ==
    IF Precedence(o1) < Precedence(o2) THEN GroupLeft(o1, o2) ELSE GroupRight(o1, o2)

PrecPairs == {p \in PrecOps \X PrecOps : Precedence(p[1]) # Precedence(p[2])}

PrecSources == {Flat(p[1], p[2]) : p \in PrecPairs} \cup {Grouped(p[1], p[2]) : p \in PrecPairs}

\* (a + b)
ParenSum == <<"(", "a", " ", "+", " ", "b", ")">>

\* sources with operators where an operand is expected
UnarySources ==
    { <<"1", "0", " ", "+", " ", "+", " ", "-", "1">>, <<"1", "0", " ", "*", "-", "3">>,
      <<"!", "1">> }

\* string literals with escapes: \n, \t, \", \', \a, \\ and a\"b
EscapeSources ==
    { <<"\"", "\\", "n", "\"">>, <<"\"", "\\", "t", "\"">>, <<"\"", "\\", "\"", "\"">>,
      <<"'", "\\", "'", "'">>, <<"\"", "\\", "a", "\"">>, <<"\"", "\\", "\\", "\"">>,
      <<"\"", "a", "\\", "\"", "b", "\"">> }

\* binary operators of opPrecedence that can stand between two operands
BinaryOps ==
    { <<"&", "&">>, <<"|", "|">>, <<"*", "*">>, <<"<", "<">>, <<">", ">">>, <<"<", "=">>,
      <<">", "=">>, <<"=", "=">>, <<"!", "=">>, <<"&">>, <<",">>, <<"/">> }

\* a o b
BinarySource(o) == <<"a", " ">> \o o \o <<" ", "b">>

BinarySources == {BinarySource(o) : o \in BinaryOps}

Sources ==
    ShortSources \cup CmpSources \cup NamedSources \cup PrecSources \cup UnarySources
        \cup EscapeSources \cup BinarySources \cup {ParenSum}

\* the compile-time bindings: Parse compiles with none
Bindings == {EmptyMap, (<<"a">> :> intToken(<<1, 0, 0, 0>>))}

KeyA == <<"a">>

\* the records {"a": m}
NumberRecord(m) == JObject(KeyA :> JNumber(m))

RecordNumbers ==
    { <<"1">>, <<"1", "0">>,
      <<"9", "0", "0", "7", "1", "9", "9", "2", "5", "4", "7", "4", "0", "9", "9", "2">>,
      <<"9", "0", "0", "7", "1", "9", "9", "2", "5", "4", "7", "4", "0", "9", "9", "3">> }

KeyB == <<"b">>

LogLines ==
    {NumberRecord(m) : m \in RecordNumbers} \cup
    { JObject(EmptyMap), JObject(KeyA :> JBool(TRUE)), JObject(KeyA :> JString(<<"x">>)),
      JObject(KeyA :> JNull), JObject(KeyA :> JObject(KeyB :> JNumber(<<"1">>))), JMalformed,
      JObject(KeyA :> JNumber(<<"-", "1">>)),
      JArray(<<>>), JNumber(<<"1">>), JString(<<"x">>),
      JObject(KeyA :> JArray(<<JNumber(<<"1">>), JString(<<"x">>)>>)),
      JObject(KeyA :> JNumber(<<"1", ".", "5">>)) }

\* the variable paths given to Resolve: the lexer builds those of one
\* segment, the others are built through the API
ResolvePaths ==
    { <<KeyA>>, <<KeyB>>, <<KeyA, KeyB>>, <<KeyB, KeyA>>, <<KeyA, KeyA>>, <<KeyA, KeyB, KeyA>>,
      <<KeyA, <<>>>>, <<KeyA, <<"b", " ", "c">>>>, <<KeyA, <<"1">>>> }

One == intToken(DecimalValue(<<"1">>, Zero))

\* programs given to evaluate as they are: two values and no operator, an
\* operator with one operand, a comparison, and a call of the list
\* constructor
StackPrograms ==
    { <<One, One>>, <<One, opToken(<<"=", "=">>)>>, <<One, One, opToken(<<"=", "=">>)>>,
      <<Function("NewListToken"), One, opToken(<<"(", ")">>)>> }

\* a Reference to a with no map of origin and the compile-time value 1,
\* compared with a literal
RefPrograms ==
    { <<refToken(<<KeyA>>, intToken(<<1, 0, 0, 0>>), NilToken), intToken(<<1, 0, 0, 0>>), opToken(op)>> :
          op \in CmpOps }

\* the programs whose variable or Reference is resolved
ResolvePrograms ==
    {<<varToken(path)>> : path \in ResolvePaths} \cup RefPrograms \cup StackPrograms

\* the programs several evaluations run on at once
ConcSources ==
    { <<"a">>, <<"a", " ", "=", "=", " ", "1", "0">>, <<"a", " ", "!", "=", " ", "1">>,
      <<"1", " ", "*">>, <<"[", "1", "]">> }

\* the records the evaluations that run at once are given
ConcLogLines ==
    {NumberRecord(<<"1">>), NumberRecord(<<"1", "0">>), JObject(EmptyMap), JMalformed}

\* the evaluations that run at once
NumRuns == 2

(***************************************************************************)
(* State                                                                   *)
(***************************************************************************)
VARIABLES
    strExpr,      \* the source given to parse
    bindings,     \* the compile-time bindings given to parse (vars)
    index,        \* the cursor i of parse
    rpnBuilder,   \* the RPNBuilder of parse
    parsingCtx,   \* the ParsingCtx of parse
    compiled,     \* what parse has returned: status, rpn and err
    program,      \* the BoolExpr that Parse returned
    runs,         \* the evaluations that run on the program
    eval,         \* of each evaluation: where it is, the locals of evaluate, the result
    logLine,      \* of each evaluation: the record given to BoolExpr.Evaluate
    env,          \* of each evaluation: the map vars given to evaluate
    evalStack     \* the working stacks of the evaluations

parseVars == <<strExpr, bindings, index, rpnBuilder, parsingCtx, compiled, program>>

evalVars == <<runs, eval, logLine, env, evalStack>>

vars == <<parseVars, evalVars>>

\* the state of parse as the record the lexer operators work on
ParseState ==
    [expr |-> strExpr, bindings |-> bindings, i |-> index, r |-> rpnBuilder,
     ctx |-> parsingCtx, status |-> compiled.status, rpn |-> compiled.rpn,
     err |-> compiled.err]

SetParseState(st) ==
    /\ index' = st.i
    /\ rpnBuilder' = st.r
    /\ parsingCtx' = st.ctx
    /\ compiled' = [status |-> st.status, rpn |-> st.rpn, err |-> st.err]
    /\ program' = IF st.status = "ok" THEN st.rpn ELSE program
    /\ UNCHANGED <<strExpr, bindings>>

NoResult == [kind |-> "none", bool |-> FALSE, err |-> NoErr]

IdleEval == [pc |-> "idle", e |-> NewEvaluate(<<>>), result |-> NoResult]

InitParse ==
    /\ strExpr \in Sources
    /\ bindings \in Bindings
    /\ index = 0
    /\ rpnBuilder = NewRPNBuilder
    /\ parsingCtx = NewParsingCtx
    /\ compiled = [status |-> "new", rpn |-> <<>>, err |-> NoErr]
    /\ program = <<>>

InitEval(R) ==
    /\ runs = R
    /\ eval = [r \in R |-> IdleEval]
    /\ logLine = [r \in R |-> JMalformed]
    /\ env = [r \in R |-> EmptyMap]
    /\ evalStack = [r \in R |-> <<>>]

Init == InitParse /\ InitEval({1})

\* a program that Parse has returned, and NumRuns evaluations to run on it
InitConc ==
    /\ strExpr \in ConcSources
    /\ bindings = EmptyMap
    /\ LET st == parse(strExpr, bindings)
       IN  /\ st.status = "ok"
           /\ index = st.i
           /\ rpnBuilder = st.r
           /\ parsingCtx = st.ctx
           /\ compiled = [status |-> st.status, rpn |-> st.rpn, err |-> st.err]
           /\ program = st.rpn
    /\ InitEval(1..NumRuns)

(***************************************************************************)
(* Actions of parse                                                        *)
(***************************************************************************)
\* the call of parse up to the main loop
ParseBegin ==
    /\ compiled.status = "new"
    /\ SetParseState(NewParse(strExpr, bindings))
    /\ UNCHANGED evalVars

LexNumber ==
    /\ InLoop(ParseState) /\ IsNumberStart(ParseState)
    /\ SetParseState(NumberCase(ParseState))
    /\ UNCHANGED evalVars

LexIdentifier ==
    /\ InLoop(ParseState) /\ IsIdentifierStart(ParseState)
    /\ SetParseState(IdentifierCase(ParseState))
    /\ UNCHANGED evalVars

LexString ==
    /\ InLoop(ParseState) /\ IsStringStart(ParseState)
    /\ SetParseState(StringCase(ParseState))
    /\ UNCHANGED evalVars

LexBracket ==
    /\ InLoop(ParseState) /\ IsBracket(ParseState)
    /\ SetParseState(BracketCase(ParseState))
    /\ UNCHANGED evalVars

LexOperator ==
    /\ InLoop(ParseState) /\ IsOperatorStart(ParseState)
    /\ SetParseState(OperatorCase(ParseState))
    /\ UNCHANGED evalVars

ParseFinish ==
    /\ compiled.status = "run" /\ ~InLoop(ParseState)
    /\ SetParseState(Finish(ParseState))
    /\ UNCHANGED evalVars

(***************************************************************************)
(* Actions of BoolExpr.Evaluate and evaluate                               *)
(***************************************************************************)
\* the stack if the evaluations shared one
SharedStackSlot(r) == 1

\* the stack an evaluation works on: its own local
StackSlot(r) == r

SetEvaluate(r, s) ==
    /\ eval' = [eval EXCEPT ![r].e = s.e]
    /\ env' = [env EXCEPT ![r] = s.vars]
    /\ evalStack' = [evalStack EXCEPT ![StackSlot(r)] = s.stack]

\* BoolExpr.Evaluate(logLine) up to the loop of evaluate
EvaluateBegin(r, b) ==
    /\ compiled.status = "ok"
    /\ eval[r].pc # "run"
    /\ LET m == NewLazyJsonMap(b)
       IN  /\ logLine' = [logLine EXCEPT ![r] = b]
           /\ IF m.err # NoErr
              THEN /\ eval' = [eval EXCEPT ![r] =
                                  [pc |-> "done", e |-> NewEvaluate(<<>>),
                                   result |-> [kind |-> "return", bool |-> FALSE, err |-> m.err]]]
                   /\ UNCHANGED <<env, evalStack>>
              ELSE /\ eval' = [eval EXCEPT ![r] =
                                  [pc |-> "run", e |-> NewEvaluate(program), result |-> NoResult]]
                   /\ env' = [env EXCEPT ![r] = m.m]
                   /\ evalStack' = [evalStack EXCEPT ![StackSlot(r)] =
                                        NewEvalStack(evalStack[StackSlot(r)])]
    /\ UNCHANGED <<parseVars, runs>>

InEvaluate(r) == eval[r].pc = "run" /\ eval[r].e.out = Pending

AtToken(r) == eval[r].e.rpn[eval[r].e.i + 1]

\* an iteration of the loop of evaluate on a token that is no operator
EvalToken(r) ==
    /\ InEvaluate(r) /\ eval[r].e.i < Len(eval[r].e.rpn) /\ AtToken(r).type # "op"
    /\ SetEvaluate(r, EvaluateToken(eval[r].e, env[r], evalStack[StackSlot(r)]))
    /\ UNCHANGED <<parseVars, runs, logLine>>

\* an iteration of the loop of evaluate on an operator
EvalOperator(r) ==
    /\ InEvaluate(r) /\ eval[r].e.i < Len(eval[r].e.rpn) /\ AtToken(r).type = "op"
    /\ SetEvaluate(r, EvaluateOperator(eval[r].e, env[r], evalStack[StackSlot(r)]))
    /\ UNCHANGED <<parseVars, runs, logLine>>

\* the end of the loop of evaluate
EvalReturn(r) ==
    /\ InEvaluate(r) /\ eval[r].e.i >= Len(eval[r].e.rpn)
    /\ SetEvaluate(r, EvaluateReturn(eval[r].e, env[r], evalStack[StackSlot(r)]))
    /\ UNCHANGED <<parseVars, runs, logLine>>

\* BoolExpr.Evaluate after evaluate has returned
EvaluateEnd(r) ==
    /\ eval[r].pc = "run" /\ eval[r].e.out # Pending
    /\ eval' = [eval EXCEPT ![r].pc = "done", ![r].result = AssertBool(eval[r].e.out)]
    /\ UNCHANGED <<parseVars, runs, logLine, env, evalStack>>

Next ==
    \/ ParseBegin
    \/ LexNumber
    \/ LexIdentifier
    \/ LexString
    \/ LexBracket
    \/ LexOperator
    \/ ParseFinish
    \/ \E r \in runs, b \in LogLines : EvaluateBegin(r, b)
    \/ \E r \in runs : EvalToken(r)
    \/ \E r \in runs : EvalOperator(r)
    \/ \E r \in runs : EvalReturn(r)
    \/ \E r \in runs : EvaluateEnd(r)

Spec == Init /\ [][Next]_vars

\* the evaluations alone, on a compiled program
NextConc ==
    \/ \E r \in runs, b \in ConcLogLines : EvaluateBegin(r, b)
    \/ \E r \in runs : EvalToken(r)
    \/ \E r \in runs : EvalOperator(r)
    \/ \E r \in runs : EvalReturn(r)
    \/ \E r \in runs : EvaluateEnd(r)

SpecConc == InitConc /\ [][NextConc]_vars

\* a program of one variable, which the evaluation resolves
InitResolve ==
    /\ strExpr = <<>>
    /\ bindings = EmptyMap
    /\ index = 0
    /\ rpnBuilder = NewRPNBuilder
    /\ parsingCtx = NewParsingCtx
    /\ \E rpn \in ResolvePrograms :
         /\ compiled = [status |-> "ok", rpn |-> rpn, err |-> NoErr]
         /\ program = rpn
    /\ InitEval({1})

NextResolve ==
    \/ \E r \in runs, b \in LogLines : EvaluateBegin(r, b)
    \/ \E r \in runs : EvalToken(r)
    \/ \E r \in runs : EvalOperator(r)
    \/ \E r \in runs : EvalReturn(r)
    \/ \E r \in runs : EvaluateEnd(r)

SpecResolve == InitResolve /\ [][NextResolve]_vars

\* the RPNBuilder alone, under any sequence of calls of its methods
MaxBuilderLen == 3

BuilderOps == {<<"+">>, <<"*">>, <<"!">>, <<"(", ")">>, <<"?">>}

BuilderBrackets == {<<"(">>, <<"[">>}

InitBuilder ==
    /\ strExpr = <<>>
    /\ bindings = EmptyMap
    /\ index = 0
    /\ rpnBuilder = NewRPNBuilder
    /\ parsingCtx = NewParsingCtx
    /\ compiled = [status |-> "new", rpn |-> <<>>, err |-> NoErr]
    /\ program = <<>>
    /\ InitEval({1})

BuilderInBound ==
    /\ Len(rpnBuilder.rpn) < MaxBuilderLen
    /\ rpnBuilder.bracketLevel < MaxBuilderLen

BuilderFrame == UNCHANGED <<strExpr, bindings, index, parsingCtx, compiled, program, evalVars>>

CallHandleToken ==
    /\ BuilderInBound
    /\ rpnBuilder' = handleToken(rpnBuilder, One).r
    /\ BuilderFrame

CallHandleOp(op) ==
    /\ BuilderInBound
    /\ rpnBuilder' = handleOp(rpnBuilder, op).r
    /\ BuilderFrame

CallOpenBracket(bracket) ==
    /\ BuilderInBound
    /\ rpnBuilder' = openBracket(rpnBuilder, bracket)
    /\ BuilderFrame

CallCloseBracket(bracket) ==
    /\ BuilderInBound
    /\ rpnBuilder' = closeBracket(rpnBuilder, bracket).r
    /\ BuilderFrame

NextBuilder ==
    \/ CallHandleToken
    \/ \E op \in BuilderOps : CallHandleOp(op)
    \/ \E bracket \in BuilderBrackets : CallOpenBracket(bracket)
    \/ \E bracket \in BuilderBrackets : CallCloseBracket(bracket)

SpecBuilder == InitBuilder /\ [][NextBuilder]_vars

\* one call of parse, which runs to its return once it has entered the loop
NextCompile ==
    \/ ParseBegin
    \/ LexNumber
    \/ LexIdentifier
    \/ LexString
    \/ LexBracket
    \/ LexOperator
    \/ ParseFinish

\* the sources of the calls whose end is checked: the named ones without
\* numerals, a numeral and a numeral that fails to parse
CompileSources ==
    {s \in NamedSources \cup EscapeSources \cup CmpSources \cup PrecSources
            \cup BinarySources \cup {ParenSum} :
        \A k \in DOMAIN s : ~IsNumber(s[k])}
    \cup {<<"1">>, <<"0", "x">>}

InitCompile ==
    /\ strExpr \in CompileSources
    /\ bindings \in Bindings
    /\ index = 0
    /\ rpnBuilder = NewRPNBuilder
    /\ parsingCtx = NewParsingCtx
    /\ compiled = [status |-> "new", rpn |-> <<>>, err |-> NoErr]
    /\ program = <<>>
    /\ InitEval({1})

SpecCompile ==
    /\ InitCompile
    /\ [][NextCompile]_vars
    /\ WF_vars(LexNumber \/ LexIdentifier \/ LexString \/ LexBracket \/ LexOperator \/ ParseFinish)
(***************************************************************************)
(* Properties                                                              *)
(***************************************************************************)
Eq == <<"=", "=">>

\* the result BoolExpr.Evaluate returns for the boolean b and no error
ReturnsBool(b) == [kind |-> "return", bool |-> b, err |-> NoErr]

\* Parse(a op L) has not failed, and every finished Evaluate of {"a": m}
\* returned m = n for == and m # n for !=, without error
ComparesRight(op, l, m) ==
    /\ compiled.status \in {"new", "run", "ok"}
    /\ \A r \in runs :
         (eval[r].pc = "done" /\ logLine[r] = NumberRecord(m))
            => eval[r].result = ReturnsBool((op = Eq) <=> (m = l.denotes))

\* the sources a == L and a != L with their operator and literal
CmpCases == {[src |-> CmpSource(op, l.text), op |-> op, l |-> l] : op \in CmpOps, l \in Literals}

\* the number written in base 10 is an int64 that float64 holds exactly
\* (every number up to 2^53 is)
Exact(text) ==
    LET v == DecimalValue(text, Zero) IN FitsInt64(v) /\ float64(v) = v

ExactCases == {c \in CmpCases : Exact(c.l.denotes)}

ExactRecordNumbers == {m \in RecordNumbers : Exact(m)}

\* C1 as stated: for every record {"a": m} and every integer literal L of
\* base 10, 2, 8 or 16 denoting n, Parse("a == L") then Evaluate(record)
\* returns true exactly when m = n, "a != L" returns the opposite, and
\* neither call returns an error.
C1_AsStated ==
    \A c \in CmpCases, m \in RecordNumbers :
        (strExpr = c.src /\ bindings = EmptyMap) => ComparesRight(c.op, c.l, m)

\* C1: the same for the numbers m and n that are int64 values a float64
\* holds exactly: the record's number is read as a float64 and the literal
\* is converted to float64 for the comparison, and a literal beyond int64
\* does not compile.
C1_ExactNumbers ==
    \A c \in ExactCases, m \in ExactRecordNumbers :
        (strExpr = c.src /\ bindings = EmptyMap) => ComparesRight(c.op, c.l, m)

\* a == 0b1010 has returned true for {"a": 10}
C1_Witness ==
    /\ strExpr = CmpSource(Eq, <<"0", "b", "1", "0", "1", "0">>)
    /\ bindings = EmptyMap
    /\ \E r \in runs : /\ eval[r].pc = "done"
                       /\ logLine[r] = NumberRecord(<<"1", "0">>)
                       /\ eval[r].result = ReturnsBool(TRUE)

\* evaluate has returned in evaluation r
EvaluateReturned(r) == eval[r].pc \in {"run", "done"} /\ eval[r].e.out # Pending

EmptyRecord == JObject(EmptyMap)

\* C2 as stated: for every source that parse accepts, evaluate of the
\* program on the empty environment ends with a single result token or with
\* an error of kind RuntimeErr, never with InternalErr (nor a panic).
C2_AsStated ==
    \A r \in runs :
        (EvaluateReturned(r) /\ logLine[r] = EmptyRecord)
            => \/ eval[r].e.out.kind = "token"
               \/ eval[r].e.out.kind = "err" /\ ErrIs(eval[r].e.out.err, "RuntimeErr")

\* parse has accepted 1 * and evaluate has returned on the empty environment
C2_Witness ==
    /\ strExpr = <<"1", " ", "*">>
    /\ \E r \in runs : EvaluateReturned(r) /\ logLine[r] = EmptyRecord

\* C3: evaluate is deterministic: two calls on the same program and the
\* same environment, in either order and with other evaluations in between,
\* end with the same outcome (the same token or the same error).
C3_Deterministic ==
    \A r1, r2 \in runs :
        (EvaluateReturned(r1) /\ EvaluateReturned(r2) /\ logLine[r1] = logLine[r2])
            => eval[r1].e.out = eval[r2].e.out

\* two calls on the record {"a": 10} have each returned a token
C3_Witness ==
    /\ \A r \in runs : eval[r].pc = "done" /\ logLine[r] = NumberRecord(<<"1", "0">>)
    /\ \A r \in runs : eval[r].e.out.kind = "token"
    /\ Cardinality(runs) > 1

\* C4: evaluate leaves its inputs unchanged: from its call to its return,
\* whatever the outcome, no step changes the program's token sequence or
\* the environment map given to it (materialising a LazyJSON while a
\* variable is resolved does not write into the environment).
C4_InputsUnchanged ==
    [][\A r \in runs : eval[r].pc = "run" => (program' = program /\ env'[r] = env[r])]_vars

\* evaluate has returned the value of a, which resolution materialised from
\* the LazyJSON the environment binds to a
C4_Witness ==
    \E r \in runs :
        /\ eval[r].pc = "done"
        /\ program = <<varToken(<<KeyA>>)>>
        /\ logLine[r] = NumberRecord(<<"1", "0">>)
        /\ eval[r].e.out.kind = "token" /\ eval[r].e.out.token.type = "float"
        /\ env[r][KeyA].type = "lazy"

\* C5: when several evaluations of a program run at once, each on its own
\* record, under every interleaving each returns what it returns when it
\* runs alone.
C5_AsAlone ==
    \A r \in runs :
        eval[r].pc = "done" => eval[r].result = BoolExpr_Evaluate(program, logLine[r])

\* every evaluation is on a record of its own, one has returned while
\* another is in the loop of evaluate
C5_Witness ==
    \E r1, r2 \in runs :
        /\ eval[r1].pc = "done" /\ eval[r1].result = ReturnsBool(TRUE)
        /\ eval[r2].pc = "run" /\ eval[r2].e.i > 0
        /\ logLine[r1] # logLine[r2]

\* parse has returned (or panicked)
ParseEnded == compiled.status \notin {"new", "run"}

Quotes == {"\"", "'"}

\* the source opens a string literal that no closing quote ends
Unterminated(src) ==
    src # <<>> /\ src[1] \in Quotes /\ \A k \in 2..Len(src) : src[k] # src[1]

\* C6 as stated: parse of a source with a string literal whose closing
\* quote is missing, cut by the end of the input or by a raw newline,
\* returns a SyntaxErr carrying the start position of the literal; it does
\* not panic.
C6_AsStated ==
    (Unterminated(strExpr) /\ ParseEnded)
        => /\ compiled.status = "err"
           /\ ErrIs(compiled.err, "SyntaxErr")
           /\ compiled.err.pos = FormatLineCol(NewParsingCtx, 0)

\* parse has ended on the source "ab
C6_Witness == strExpr = <<"\"", "a", "b">> /\ ParseEnded

\* C7 as stated: parse of the empty source returns an error of kind
\* ParserErr.
C7_AsStated ==
    (strExpr = <<>> /\ ParseEnded)
        => compiled.status = "err" /\ ErrIs(compiled.err, "ParserErr")

\* parse has returned an error for the empty source
C7_Witness == strExpr = <<>> /\ compiled.status = "err"

\* the sources a o1 b o2 c with what parse returns for the grouped source
PrecCases ==
    {[src |-> Flat(p[1], p[2]), grouped |-> parse(Grouped(p[1], p[2]), EmptyMap)] : p \in PrecPairs}

\* C8 as stated: for binary operators o1 and o2 of different ranks, the
\* source a o1 b o2 c compiles to the same RPN as the source with the
\* tighter-binding operator and its operands in parentheses.
C8_AsStated ==
    \A c \in PrecCases :
        (strExpr = c.src /\ bindings = EmptyMap /\ ParseEnded)
            => /\ compiled.status = "ok" /\ c.grouped.status = "ok"
               /\ compiled.rpn = c.grouped.rpn

\* parse has compiled a * b + c
C8_Witness == strExpr = Flat(<<"*">>, <<"+">>) /\ bindings = EmptyMap /\ compiled.status = "ok"

\* C10 as stated: BoolExpr.Evaluate returns (b, no error) only when the
\* result token of the program is the Bool b, and when evaluate returns a
\* result that is not a Bool (an Integer, a String, the result of a function
\* call) it returns false with an error, without panicking.
C10_AsStated ==
    \A r \in runs :
        eval[r].pc = "done"
            => /\ (eval[r].result.kind = "return" /\ eval[r].result.err = NoErr)
                    => eval[r].e.out = Returned(boolToken(eval[r].result.bool))
               /\ (eval[r].e.out.kind = "token" /\ eval[r].e.out.token.type # "bool")
                    => /\ eval[r].result.kind = "return"
                       /\ eval[r].result.bool = FALSE
                       /\ eval[r].result.err # NoErr

\* BoolExpr.Evaluate has ended on the program of [1], whose result is what
\* the call of the list constructor returns
C10_Witness ==
    /\ strExpr = <<"[", "1", "]">>
    /\ \E r \in runs : eval[r].pc = "done" /\ eval[r].e.out.kind = "token"

RECURSIVE JResolves(_, _, _)
\* the path leads to a member of the JSON value j from its segment k on
JResolves(j, path, k) ==
    \/ k > Len(path)
    \/ /\ j.kind = "object"
       /\ path[k] \in DOMAIN j.members
       /\ JResolves(j.members[path[k]], path, k + 1)

\* evaluation r has passed the variable at the head of its program
ResolveEnded(r) ==
    eval[r].pc \in {"run", "done"} /\ (eval[r].e.i > 0 \/ eval[r].e.out = Panicked)

\* C9 as stated: for every environment and every variable path that cannot
\* be resolved in full (the first segment is missing, an intermediate value
\* is no Map, the last key is absent), Resolve returns the String of the
\* printable form of the path, never an error or nil (nor does it panic).
C9_AsStated ==
    \A r \in runs, path \in ResolvePaths :
        (program = <<varToken(path)>> /\ ResolveEnded(r) /\ ~JResolves(logLine[r], path, 1))
            => /\ eval[r].e.out # Panicked
               /\ ~varToken_String(path).panic
               /\ evalStack[r] = <<strToken(varToken_String(path).s)>>

\* Resolve has ended on the path a.b in the environment of {"a": null}
C9_Witness ==
    /\ program = <<varToken(<<KeyA, KeyB>>)>>
    /\ \E r \in runs : ResolveEnded(r) /\ logLine[r] = JObject(KeyA :> JNull)

\* the records that are no JSON object: malformed bytes, a top-level array,
\* number or string
NoObjectKinds == {"malformed", "array", "number", "string"}

\* BoolExpr.Evaluate has been called in evaluation r
Called(r) == eval[r].pc # "idle"

\* C11: BoolExpr.Evaluate called with a record that is no valid JSON object
\* (malformed bytes, a top-level array, number or string) returns false and
\* an error of kind ParserErr, and evaluates no token of the program.
C11_BadRecord ==
    \A r \in runs :
        (Called(r) /\ logLine[r].kind \in NoObjectKinds)
            => /\ eval[r].pc = "done"
               /\ eval[r].result.kind = "return"
               /\ eval[r].result.bool = FALSE
               /\ ErrIs(eval[r].result.err, "ParserErr")
               /\ eval[r].e.i = 0 /\ eval[r].e.out = Pending

\* BoolExpr.Evaluate has returned for the record [] on a compiled program
\* that has tokens
C11_Witness ==
    \E r \in runs :
        /\ eval[r].pc = "done"
        /\ logLine[r] = JArray(<<>>)
        /\ Len(program) > 0

\* the first bytes unmarshalLazyValue has a case for
LazyFirstBytes == Digits \cup {"\"", "t", "f", "{", "["}

\* the program compares the field a with a literal and the record is an
\* object whose field a begins with a byte unmarshalLazyValue has no case for
ReadsUnsupported(r) ==
    /\ Len(program) = 3
    /\ program[1] = varToken(<<KeyA>>)
    /\ program[2].type = "int"
    /\ program[3].type = "op"
    /\ logLine[r].kind = "object"
    /\ KeyA \in DOMAIN logLine[r].members
    /\ FirstByte(logLine[r].members[KeyA]) \notin LazyFirstBytes

\* C12 as stated: evaluating an expression that reads a field whose JSON
\* value begins with none of a digit, ", t, f, { and [ ends with an
\* InternalErr returned to the caller, not with a panic.
C12_AsStated ==
    \A r \in runs :
        (EvaluateReturned(r) /\ ReadsUnsupported(r))
            => /\ eval[r].e.out.kind = "err"
               /\ ErrIs(eval[r].e.out.err, "InternalErr")

\* evaluate has ended for a == 1 on the record {"a": null}
C12_Witness ==
    /\ strExpr = CmpSource(Eq, <<"1">>)
    /\ \E r \in runs : EvaluateReturned(r) /\ logLine[r] = JObject(KeyA :> JNull)

\* literals with a decimal point, by base
Base10Decimals == {<<"1", ".", "5">>}

OtherBaseDecimals == {<<"0", "x", "1", ".", "5">>, <<"0", "b", "1", ".", "1">>}

\* C13 as stated: a numeric literal followed by . and further digits is one
\* literal: in base 10 parse yields a single Float token, in base 2, 8 or 16
\* it returns SyntaxErr.
C13_AsStated ==
    ParseEnded =>
        /\ strExpr \in Base10Decimals
              => /\ compiled.status = "ok"
                 /\ Len(compiled.rpn) = 1
                 /\ compiled.rpn[1].type = "float"
        /\ strExpr \in OtherBaseDecimals
              => /\ compiled.status = "err"
                 /\ ErrIs(compiled.err, "SyntaxErr")

\* parse has accepted 0x1.5
C13_Witness ==
    strExpr = <<"0", "x", "1", ".", "5">> /\ compiled.status = "ok"

MaxInt64Text ==
    <<"9", "2", "2", "3", "3", "7", "2", "0", "3", "6", "8", "5", "4", "7", "7", "5", "8", "0", "7">>

\* s <= t for two numbers written in base 10 without leading zeros
RECURSIVE DecimalLeq(_, _)
DecimalLeq(s, t) ==
    IF Len(s) # Len(t) THEN Len(s) < Len(t)
    ELSE IF s = <<>> THEN TRUE
    ELSE IF Head(s) # Head(t) THEN DigitVal(Head(s)) < DigitVal(Head(t))
    ELSE DecimalLeq(Tail(s), Tail(t))

\* C14: for an integer literal of base 10, 2, 8 or 16 (compared with the
\* unbound identifier a), parse yields an
\* Integer token holding exactly the number the literal denotes when that
\* number is at most 2^63 - 1, and returns SyntaxErr when it is larger; no
\* literal is wrapped or truncated.
C14_IntLiterals ==
    \A c \in CmpCases :
        (strExpr = c.src /\ bindings = EmptyMap /\ ParseEnded)
            => IF DecimalLeq(c.l.denotes, MaxInt64Text)
               THEN /\ compiled.status = "ok"
                    /\ compiled.rpn[2] = intToken(DecimalValue(c.l.denotes, Zero))
               ELSE /\ compiled.status = "err"
                    /\ ErrIs(compiled.err, "SyntaxErr")

\* parse has accepted a == 0x7fffffffffffffff, the largest int64
C14_Witness ==
    /\ strExpr = CmpSource(Eq, <<"0", "x", "7", "f", "f", "f", "f", "f", "f", "f", "f", "f", "f", "f", "f", "f", "f", "f">>)
    /\ bindings = EmptyMap
    /\ compiled.status = "ok"

\* sources in which a value follows a value with only a space between them
TwoValues ==
    { <<"1", " ", "2">>, <<"a", " ", "\"", "b", "\"">>, <<"\"", "a", "\"", " ", "1">> }

\* C15 as stated: parse of a source in which two value tokens follow each
\* other with no operator or bracket between them returns SyntaxErr.
C15_AsStated ==
    (ParseEnded /\ strExpr \in TwoValues)
        => /\ compiled.status = "err"
           /\ ErrIs(compiled.err, "SyntaxErr")

\* parse has accepted 1 2 and the program is the single token 1
C15_Witness ==
    /\ strExpr = <<"1", " ", "2">>
    /\ compiled.status = "ok"
    /\ compiled.rpn = <<intToken(DecimalValue(<<"1">>, Zero))>>

\* a == 1 with a space, tab or newline added before the first token, between
\* two tokens or after the last token, and a followed by a space; each with
\* the source it was made from
WsCases ==
    { [src |-> <<" ", "a", " ", "=", "=", " ", "1">>, base |-> CmpSource(Eq, <<"1">>)],
      [src |-> <<"a", " ", "=", "=", "\n", "1">>, base |-> CmpSource(Eq, <<"1">>)],
      [src |-> <<"a", "\t", "=", "=", " ", "1">>, base |-> CmpSource(Eq, <<"1">>)],
      [src |-> <<"a", " ", "=", "=", " ", "1", " ">>, base |-> CmpSource(Eq, <<"1">>)],
      [src |-> <<"a", " ", "=", "=", " ", "1", "\n">>, base |-> CmpSource(Eq, <<"1">>)],
      [src |-> <<"a", " ">>, base |-> <<"a">>] }

\* C16 as stated: for every source E that compiles, adding spaces, tabs or
\* newlines before the first token, between two tokens or after the last
\* token yields a source that compiles to the same RPN as E.
C16_AsStated ==
    \A c \in WsCases :
        (strExpr = c.src /\ ParseEnded /\ parse(c.base, bindings).status = "ok")
            => /\ compiled.status = "ok"
               /\ compiled.rpn = parse(c.base, bindings).rpn

\* parse has rejected a == 1 followed by a space
C16_Witness ==
    /\ strExpr = <<"a", " ", "=", "=", " ", "1", " ">>
    /\ bindings = EmptyMap
    /\ compiled.status = "err"

\* a closing bracket right after its opener, a closing bracket with no
\* opener, and a closing bracket that closes an opener of another type
BadBrackets ==
    { <<"(", ")">>, <<"[", "]">>, <<"{", "}">>, <<"a", ")">>, <<"[", "(", "a", "]">> }

\* C17 as stated: parse returns SyntaxErr for every source in which a
\* closing bracket immediately follows its own opener, has no opener before
\* it, or closes an opener of a different type.
C17_AsStated ==
    (ParseEnded /\ strExpr \in BadBrackets)
        => /\ compiled.status = "err"
           /\ ErrIs(compiled.err, "SyntaxErr")

\* parse has accepted [(a]
C17_Witness ==
    strExpr = <<"[", "(", "a", "]">> /\ bindings = EmptyMap /\ compiled.status = "ok"

\* sources with *, which has no entry L* in opPrecedence, where an operand
\* is expected: at the start, after an operator, after an opening bracket
StrayOperator ==
    { <<"*", "1">>, <<"*", "-", "1">>, <<"a", " ", "+", " ", "*", " ", "b">>,
      <<"(", "*", "1", ")">> }

\* C18 as stated: parse returns SyntaxErr whenever an operator that has no
\* left-unary form appears where an operand is expected.
C18_AsStated ==
    (ParseEnded /\ strExpr \in StrayOperator)
        => /\ compiled.status = "err"
           /\ ErrIs(compiled.err, "SyntaxErr")

\* parse has accepted *-1
C18_Witness ==
    strExpr = <<"*", "-", "1">> /\ compiled.status = "ok"

\* the operators reserved for the initial grammar
ReservedOps == {<<"=", "=">>, <<"!", "=">>, <<"<">>, <<">">>, <<"<", "=">>, <<">", "=">>}

NumericTypes == {"int", "float"}

\* a reserved operator on a numeric pair, or equality on one variant
Reserved(op, left, right) ==
    \/ op \in ReservedOps /\ left.type \in NumericTypes /\ right.type \in NumericTypes
    \/ op = Eq /\ left.type = right.type

\* evaluate is at an operator in evaluation r with two operands on the stack
AtOperator(r) ==
    /\ InEvaluate(r)
    /\ eval[r].e.i < Len(eval[r].e.rpn)
    /\ AtToken(r).type = "op"
    /\ Len(evalStack[StackSlot(r)]) >= 2

LeftOperand(r) == evalStack[StackSlot(r)][Len(evalStack[StackSlot(r)]) - 1]

RightOperand(r) == evalStack[StackSlot(r)][Len(evalStack[StackSlot(r)])]

\* C19 as stated: the registry implements ==, !=, <, >, <= and >= on each
\* numeric pair and equality on two operands of one variant: dispatching
\* any of these never fails.
C19_AsStated ==
    \A r \in runs :
        (AtOperator(r) /\ Reserved(AtToken(r).op, LeftOperand(r), RightOperand(r)))
            => findAndRunOperator(AtToken(r).op, LeftOperand(r), RightOperand(r)).err = NoErr

\* evaluate of 1 < 1 has failed at the operator
C19_Witness ==
    /\ strExpr = <<"1", " ", "<", " ", "1">>
    /\ \E r \in runs : eval[r].e.i = 2 /\ eval[r].e.out = Failed(RuntimeErr("operation error"))

\* an Int operand promoted to Float, a Float operand as it is
Promoted(t) == IF t.type = "int" THEN FloatOfInt(t.int) ELSE t.float

\* the two numeric operands denote the same number: two Ints are compared
\* as integers, every other pair after the Int operand is promoted to Float
SameNumber(left, right) ==
    IF left.type = "int" /\ right.type = "int" THEN left.int = right.int
    ELSE Promoted(left) = Promoted(right)

Ne == <<"!", "=">>

\* == and != dispatched on the operands l and r answer SameNumber and its
\* negation, in either order of the operands
EqualityAgrees(l, r) ==
    /\ findAndRunOperator(Eq, l, r) = [token |-> boolToken(SameNumber(l, r)), err |-> NoErr]
    /\ findAndRunOperator(Ne, l, r) = [token |-> boolToken(~SameNumber(l, r)), err |-> NoErr]
    /\ findAndRunOperator(Eq, r, l) = findAndRunOperator(Eq, l, r)
    /\ findAndRunOperator(Ne, r, l) = findAndRunOperator(Ne, l, r)

\* C20: whenever evaluate applies == or != to two numeric operands
\* (Int/Int, Float/Float, Int/Float, Float/Int), == returns Bool(true)
\* exactly when both denote the same number, an Int operand of a mixed pair
\* being promoted to Float, != returns the negation, and neither result
\* depends on the order of the operands.
C20_NumericEquality ==
    \A r \in runs :
        ( /\ AtOperator(r)
          /\ AtToken(r).op \in CmpOps
          /\ LeftOperand(r).type \in NumericTypes
          /\ RightOperand(r).type \in NumericTypes )
            => EqualityAgrees(LeftOperand(r), RightOperand(r))

\* evaluate is at the operator of a == 9007199254740993 with the Float
\* 2^53 read from the record and the Int 2^53 + 1 on the stack
C20_Witness ==
    \E r \in runs :
        /\ AtOperator(r)
        /\ AtToken(r).op = Eq
        /\ LeftOperand(r).type = "float"
        /\ RightOperand(r) = intToken(DecimalValue(<<"9", "0", "0", "7", "1", "9", "9", "2", "5", "4", "7", "4", "0", "9", "9", "3">>, Zero))
        /\ SameNumber(LeftOperand(r), RightOperand(r))

\* sources whose operator has no entry in operators (1 < 1) or no entry
\* for the types of its operands ("a" == "a"), with the title of the error
\* findAndRunOperator returns
DispatchFailures ==
    { [src |-> <<"1", " ", "<", " ", "1">>, title |-> "unrecognized operator"],
      [src |-> <<"\"", "a", "\"", " ", "=", "=", " ", "\"", "a", "\"">>,
       title |-> "unsupported types for operator"] }

\* C21 as stated: when evaluate reaches an operator with no entry in the
\* registry, or with no implementation for the types of its operands, the
\* error evaluate returns is of kind SyntaxErr, titled "unrecognized
\* operator" resp. "unsupported types for operator".
C21_AsStated ==
    \A c \in DispatchFailures, r \in runs :
        (strExpr = c.src /\ EvaluateReturned(r))
            => /\ eval[r].e.out.kind = "err"
               /\ ErrIs(eval[r].e.out.err, "SyntaxErr")
               /\ eval[r].e.out.err.title = c.title

\* evaluate of "a" == "a" has returned the error of its operator
C21_Witness ==
    /\ strExpr = <<"\"", "a", "\"", " ", "=", "=", " ", "\"", "a", "\"">>
    /\ \E r \in runs : /\ EvaluateReturned(r)
                       /\ eval[r].e.i = 2
                       /\ ErrIs(eval[r].e.out.err, "RuntimeErr")

\* C22 as stated: when the operator is () and its left operand is a
\* Function, evaluate pushes the token the function returns for the right
\* operand as arguments, and returns RuntimeErr when the function returns
\* an error: [1] evaluates to the List of 1, and {1}, whose constructor
\* rejects an argument that is no key: value pair, to a RuntimeErr.
C22_AsStated ==
    \A r \in runs :
        EvaluateReturned(r)
            => /\ strExpr = <<"[", "1", "]">>
                    => eval[r].e.out = Returned(NewListToken(<<One>>).token)
               /\ strExpr = <<"{", "1", "}">>
                    => /\ eval[r].e.out.kind = "err"
                       /\ ErrIs(eval[r].e.out.err, "RuntimeErr")

\* evaluate of [1] has returned no token and no error
C22_Witness ==
    /\ strExpr = <<"[", "1", "]">>
    /\ \E r \in runs : eval[r].e.out = Returned(NilToken)

\* evaluate is at an operator whose left operand is a Reference with no
\* map of origin
AtReference(r) ==
    /\ AtOperator(r)
    /\ LeftOperand(r).type = "ref"
    /\ LeftOperand(r).origin = NilToken

\* the first segment of the Reference's path is a name of the live scope
LiveDefines(r) == LeftOperand(r).key[1] \in DOMAIN env[r]

\* C23 as stated: a Reference with no origin map, resolved against the live
\* scope, yields the live scope's value for its name when the scope
\* defines that name, and its compile-time value when the scope does not
\* define it, never the printable path.
C23_AsStated ==
    \A r \in runs :
        AtReference(r)
            => /\ (LiveDefines(r) /\ ~varToken_Resolve(LeftOperand(r).key, env[r]).panic)
                    => refToken_Resolve(LeftOperand(r), env[r]).token
                           = varToken_Resolve(LeftOperand(r).key, env[r]).token
               /\ ~LiveDefines(r)
                    => refToken_Resolve(LeftOperand(r), env[r]).token
                           = LeftOperand(r).originalValue

\* the Reference to a has been resolved in the scope of {}, and == has then
\* failed on its operands
C23_Witness ==
    /\ program \in RefPrograms
    /\ \E r \in runs : /\ logLine[r] = EmptyRecord
                       /\ eval[r].e.i = 2
                       /\ eval[r].e.out = Failed(RuntimeErr("operation error"))

\* the token an occurrence of the identifier a becomes under the bindings b
IdentifierToken(b) ==
    IF KeyA \in DOMAIN b THEN refToken(<<KeyA>>, b[KeyA], NilToken) ELSE varToken(<<KeyA>>)

\* C24 as stated: parse(source, bindings) turns each occurrence of an
\* identifier into exactly one token, a Reference when the identifier is a
\* key of the bindings and a Variable otherwise, so a == 1 compiles with a
\* bound as it does with a unbound.
C24_AsStated ==
    (strExpr = CmpSource(Eq, <<"1">>) /\ ParseEnded)
        => /\ compiled.status = "ok"
           /\ compiled.rpn = <<IdentifierToken(bindings), One, opToken(Eq)>>

\* parse has rejected a == 1 with a bound to 1
C24_Witness ==
    /\ strExpr = CmpSource(Eq, <<"1">>)
    /\ KeyA \in DOMAIN bindings
    /\ compiled.status = "err"

\* the operators that have a left-unary form L+op in opPrecedence
LeftUnaryOps == {<<"+">>, <<"-">>, <<"!">>}

Ten == intToken(DecimalValue(<<"1", "0">>, Zero))

Three == intToken(DecimalValue(<<"3">>, Zero))

\* handleOp(op) on the builder as it is, for an operator with a left-unary
\* form where an operand is expected: a UnaryPlaceholder is appended to
\* rpn and L+op is pushed on opStack
TakenAsLeftUnary(op) ==
    rpnBuilder.lastTokenWasOp # No
        => /\ handleOp(rpnBuilder, op).err = NoErr
           /\ handleOp(rpnBuilder, op).r.rpn = Append(rpnBuilder.rpn, unaryPlaceholderToken)
           /\ handleOp(rpnBuilder, op).r.opStack = Append(rpnBuilder.opStack, <<"L">> \o op)

EscapeCases ==
    { [src |-> <<"\"", "\\", "n", "\"">>, str |-> <<"\n">>],
      [src |-> <<"\"", "\\", "t", "\"">>, str |-> <<"\t">>],
      [src |-> <<"\"", "\\", "\"", "\"">>, str |-> <<"\"">>],
      [src |-> <<"'", "\\", "'", "'">>, str |-> <<"'">>],
      [src |-> <<"\"", "a", "\\", "\"", "b", "\"">>, str |-> <<"a", "\"", "b">>],
      [src |-> <<"\"", "\\", "a", "\"">>, str |-> <<"a">>],
      [src |-> <<"\"", "\\", "\\", "\"">>, str |-> <<"\\">>] }

\* C26 as stated: in a string literal \n decodes to a newline, \t to a
\* tab, \" and \' to the quote alone, and every other \X to the one
\* character X, the backslash being dropped (so \\ gives one backslash);
\* an escaped quote does not end the literal.
C26_AsStated ==
    \A c \in EscapeCases :
        (strExpr = c.src /\ ParseEnded)
            => /\ compiled.status = "ok"
               /\ compiled.rpn = <<strToken(c.str)>>

\* parse has accepted "\a" and its String keeps the backslash
C26_Witness ==
    /\ strExpr = <<"\"", "\\", "a", "\"">>
    /\ compiled.status = "ok"
    /\ compiled.rpn = <<strToken(<<"\\", "a">>)>>

\* C27 as stated: for every binary operator o of opPrecedence, the
\* two-character operators included, a o b compiles to the RPN [a, b, o]
\* with o as a single operator token.
C27_AsStated ==
    \A o \in BinaryOps :
        (strExpr = BinarySource(o) /\ bindings = EmptyMap /\ ParseEnded)
            => /\ compiled.status = "ok"
               /\ compiled.rpn = <<varToken(<<KeyA>>), varToken(<<KeyB>>), opToken(o)>>

\* parse has compiled a && b to [a, b, &]
C27_Witness ==
    /\ strExpr = BinarySource(<<"&", "&">>)
    /\ compiled.status = "ok"
    /\ compiled.rpn = <<varToken(<<KeyA>>), varToken(<<KeyB>>), opToken(<<"&">>)>>

\* an unmaterialised LazyJSON of the raw value j
Unmaterialised(j) == lazyJsonToken(NilToken, j)

\* JSON values of each kind unmarshalLazyValue has a case for, with the
\* token each materialises to: the number as a Float (the float64 nearest
\* to it), the string, the boolean, the object as a Map and the array as a
\* List, both of unmaterialised values
MaterialiseCases ==
    { [json |-> JNumber(m), token |-> floatToken(Float(float64(DecimalValue(m, Zero)), <<>>))] :
          m \in RecordNumbers } \cup
    { [json |-> JNumber(<<"1", ".", "5">>),
       token |-> floatToken(Float(float64(DecimalValue(<<"1">>, Zero)), <<"5">>))],
      [json |-> JString(<<"x">>), token |-> strToken(<<"x">>)],
      [json |-> JBool(TRUE), token |-> boolToken(TRUE)],
      [json |-> JObject(KeyB :> JNumber(<<"1">>)),
       token |-> mapToken(KeyB :> Unmaterialised(JNumber(<<"1">>)))],
      [json |-> JArray(<<JNumber(<<"1">>), JString(<<"x">>)>>),
       token |-> listToken(<<Unmaterialised(JNumber(<<"1">>)), Unmaterialised(JString(<<"x">>))>>)] }

\* C28: materialising a LazyJSON parses one JSON value chosen by its first
\* byte: a digit gives the Float of the number (integers too), " the
\* String, t or f the Bool, { a Map whose entries are unmaterialised
\* LazyJSON of the members, [ a List of unmaterialised LazyJSON elements in
\* order. Stated on the token Resolve of a pushes for the record {"a": v}.
C28_Materialise ==
    \A c \in MaterialiseCases, r \in runs :
        ( /\ program = <<varToken(<<KeyA>>)>>
          /\ ResolveEnded(r)
          /\ logLine[r] = JObject(KeyA :> c.json) )
            => /\ eval[r].e.out # Panicked
               /\ evalStack[StackSlot(r)] = <<c.token>>

\* Resolve of a has materialised the array [1, "x"] of the record
C28_Witness ==
    /\ program = <<varToken(<<KeyA>>)>>
    /\ \E r \in runs :
          /\ ResolveEnded(r)
          /\ logLine[r] = JObject(KeyA :> JArray(<<JNumber(<<"1">>), JString(<<"x">>)>>))
          /\ evalStack[StackSlot(r)][1].type = "list"
          /\ Len(evalStack[StackSlot(r)][1].list) = 2

\* the next token of evaluation r is an operator
NextIsOperator(r) == eval[r].e.i < Len(eval[r].e.rpn) /\ AtToken(r).type = "op"

\* the operator applies to left and right: a call of a Function, or an
\* operator with an implementation for the two operands
Applies(op, left, right) ==
    \/ left.type = "func" /\ op = <<"(", ")">>
    \/ findAndRunOperator(op, left, right).err = NoErr

\* the token the operator pushes
Applied(op, left, right) ==
    IF left.type = "func" /\ op = <<"(", ")">> THEN execFunc(EmptyMap, left, <<right>>, EmptyMap).token
    ELSE findAndRunOperator(op, left, right).token

\* a step of evaluate at an operator, on the stack of l elements
OperatorStep(r, stack, l) ==
    IF l < 2
    THEN eval'[r].e.out = Failed(InternalErr("missing operands for operator"))
    ELSE (stack[l].type # "ref" /\ stack[l - 1].type # "ref")
            => IF Applies(AtToken(r).op, stack[l - 1], stack[l])
               THEN /\ eval'[r].e.out = Pending
                    /\ evalStack'[StackSlot(r)] =
                           Append(SubSeq(stack, 1, l - 2),
                                  Applied(AtToken(r).op, stack[l - 1], stack[l]))
               ELSE eval'[r].e.out.kind = "err"

\* the step of evaluate after the last token
ReturnStep(r, stack) ==
    IF Len(stack) # 1
    THEN eval'[r].e.out =
             Failed(InternalErr("the evalStack should contains a single element at the end"))
    ELSE eval'[r].e.out = Returned(stack[1])

\* a step of evaluation r inside evaluate
StackStep(r) ==
    (InEvaluate(r) /\ eval'[r] # eval[r])
        => /\ NextIsOperator(r)
                => OperatorStep(r, evalStack[StackSlot(r)], Len(evalStack[StackSlot(r)]))
           /\ eval[r].e.i >= Len(eval[r].e.rpn)
                => ReturnStep(r, evalStack[StackSlot(r)])

\* C29: in evaluate an operator takes the top of the stack as its right
\* operand and the element below as its left operand; with fewer than two
\* elements on the stack evaluate returns InternalErr, and when the stack
\* does not hold exactly one element after the last token evaluate returns
\* InternalErr; in both cases no token is returned.
C29_Stack == [][\A r \in runs : StackStep(r)]_vars

\* evaluate has returned InternalErr for the program [1, 1], which leaves
\* two elements on the stack
C29_Witness ==
    /\ program = <<One, One>>
    /\ \E r \in runs :
          /\ Len(evalStack[StackSlot(r)]) = 2
          /\ eval[r].e.out.kind = "err"
          /\ ErrIs(eval[r].e.out.err, "InternalErr")

\* the operators and the other tokens among the first k tokens of rpn
OpsIn(rpn, k) == Cardinality({j \in 1..k : rpn[j].type = "op"})

PushesIn(rpn, k) == k - OpsIn(rpn, k)

\* the stack depth evaluate has after the first k tokens: one more per
\* pushed token, one less per operator
Depth(rpn, k) == PushesIn(rpn, k) - OpsIn(rpn, k)

\* pushes = operators + 1, and two operands on the stack at each operator
Balanced(rpn) ==
    /\ PushesIn(rpn, Len(rpn)) = OpsIn(rpn, Len(rpn)) + 1
    /\ \A k \in 1..Len(rpn) : rpn[k].type = "op" => Depth(rpn, k - 1) >= 2

\* C30 as stated: every RPN parse returns without error is balanced: its
\* non-operator tokens are one more than its operator tokens, and at each
\* operator at least two operands are on the stack, so evaluation ends
\* with exactly one stack element.
C30_AsStated == compiled.status = "ok" => Balanced(compiled.rpn)

\* parse has returned [1, *] for 1 *
C30_Witness ==
    /\ strExpr = <<"1", " ", "*">>
    /\ compiled.status = "ok"
    /\ compiled.rpn = <<One, opToken(<<"*">>)>>

\* the strings openBracket pushes on opStack
BracketStrings == {<<"(">>, <<"[">>, <<"{">>}

\* no bracket string is an operator token of rpn
NoBracketIn(rpn) ==
    \A k \in DOMAIN rpn : rpn[k].type = "op" => rpn[k].op \notin BracketStrings

\* the iteration of parse that takes in an operator leaves every open
\* bracket of opStack, and what lies below it, where it is
BarrierKept ==
    (InLoop(ParseState) /\ IsOperatorStart(ParseState))
        => \A k \in DOMAIN rpnBuilder.opStack :
               rpnBuilder.opStack[k] \in BracketStrings
                   => /\ Len(rpnBuilder'.opStack) >= k
                      /\ SubSeq(rpnBuilder'.opStack, 1, k) = SubSeq(rpnBuilder.opStack, 1, k)

\* C31 as stated: an opening bracket on opStack is a barrier: until its
\* closeBracket no intake of an operator moves the bracket or an operator
\* pushed before it from opStack to rpn, and no bracket string is emitted
\* into rpn as an operator token, so (a + b) compiles to [a, b, +].
C31_AsStated ==
    [][ /\ BarrierKept
        /\ NoBracketIn(rpnBuilder'.rpn)
        /\ (strExpr = ParenSum /\ bindings = EmptyMap /\ compiled'.status \notin {"new", "run"})
              => /\ compiled'.status = "ok"
                 /\ compiled'.rpn = <<varToken(<<KeyA>>), varToken(<<KeyB>>), opToken(<<"+">>)>>
      ]_vars

\* parse has returned a program for (a + b) whose second token is the
\* bracket as an operator
C31_Witness ==
    /\ strExpr = ParenSum
    /\ compiled.status = "ok"
    /\ compiled.rpn[2] = opToken(<<"(">>)

\* a dangling unary operator is the one on top of the opStack
UnaryOnTop(r) ==
    r.lastTokenWasUnary
        => /\ r.lastTokenWasOp # No
           /\ Len(r.opStack) > 0
           /\ r.opStack[Len(r.opStack)][1] = "L"

\* C32: after any sequence of handleToken, handleOp, openBracket and
\* closeBracket calls, failed ones included, lastTokenWasUnary implies that
\* lastTokenWasOp is not "no" and that the opStack is non-empty with a left
\* unary operator on top; so FinishAndReturnRPN never indexes an empty opStack
C32_UnaryOnTop ==
    /\ UnaryOnTop(rpnBuilder)
    /\ ~FinishAndReturnRPN(rpnBuilder, NoPos).panic

\* a left unary operator is still pending after a closeBracket that failed
\* on it, and FinishAndReturnRPN reports it
C32_Witness ==
    /\ rpnBuilder.lastTokenWasUnary
    /\ rpnBuilder.opStack = <<<<"(">>, <<"L", "!">>>>
    /\ rpnBuilder.rpn = <<unaryPlaceholderToken, opToken(<<"!">>), opToken(<<"(">>)>>
    /\ FinishAndReturnRPN(rpnBuilder, NoPos).err # NoErr

\* every intake that fails on the builder r returns r as it was
FailedIntakeKeeps(r) ==
    /\ handleToken(r, One).err # NoErr => handleToken(r, One).r = r
    /\ \A op \in BuilderOps :
          handleOp(r, op).err # NoErr => handleOp(r, op).r = r
    /\ \A bracket \in BuilderBrackets :
          closeBracket(r, bracket).err # NoErr => closeBracket(r, bracket).r = r

\* C33 as stated: whenever handleToken, handleOp or closeBracket returns
\* SyntaxErr, the fields rpn, opStack, lastTokenWasOp, lastTokenWasUnary and
\* bracketLevel all have the values they had before the call
C33_AsStated == FailedIntakeKeeps(rpnBuilder)

\* the builder after 1, + and a closeBracket that failed: the operator was
\* appended to rpn and is still on the opStack
C33_Witness ==
    /\ rpnBuilder.rpn = <<One, opToken(<<"+">>)>>
    /\ rpnBuilder.opStack = <<<<"+">>>>
    /\ rpnBuilder.lastTokenWasOp = <<"+">>
    /\ rpnBuilder.bracketLevel = 0

\* an iteration of the main loop of parse returns an error or leaves the
\* cursor further on, and never past the end of the source
IterationAdvances ==
    InLoop(ParseState)
        => \/ compiled'.status = "err"
           \/ index < index' /\ index' <= Len(strExpr)

\* C34: compile terminates on every finite source: each iteration of the
\* lexer's main loop either returns an error or leaves the cursor strictly
\* greater than it was at the start of the iteration, so the loop runs at most
\* once per input character, and parse, once in the loop, comes to its end
\* (the finalisation, an error, or the panic of a string literal cut short)
C34_Terminates ==
    /\ [][IterationAdvances]_vars
    /\ (compiled.status = "run") ~> ParseEnded

\* parse has gone through (a + b), one iteration for each of its tokens, and
\* has returned from the finalisation
C34_Witness ==
    /\ strExpr = ParenSum
    /\ index = Len(strExpr)
    /\ compiled.status = "ok"
    /\ Len(compiled.rpn) = 5
====
